---- MODULE Spec2Model ----
(***************************************************************************)
(* MM Wallet v2 (src/lib.rs): the wallet record, the vault that holds its  *)
(* lamports and tokens, the policy primitives and the fourteen handlers.   *)
(* Every handler is an operator that maps the accounts and arguments of    *)
(* one instruction to its outcome (error kind, wallet record, vault        *)
(* balances, external call); every action applies one handler atomically,  *)
(* as the ledger applies one instruction.                                  *)
(***************************************************************************)
EXTENDS Integers, Sequences, FiniteSets, TLC

VARIABLES wallets, vaults, tokens, now, last

vars == <<wallets, vaults, tokens, now, last>>

(***************************************************************************)
(* Program constants (src/lib.rs 17-50).                                   *)
(***************************************************************************)
PUMP_FUN_PROGRAM == "6EF8rrecthR5Dkzon8Nwu78hRvfCKubJ14M5uBEwF6P"
PUMPSWAP_PROGRAM == "pAMMBay6oceH9fJKBRHGP5D4bD4sWpmSwMn52FMfXEA"
MIN_RENT_RESERVE == 10000000
MAX_TRADE_PCT == 50
MIN_LOCK_SECONDS == 0
MAX_LOCK_SECONDS == 365 * 24 * 60 * 60
MAX_TOTAL_LOCK_SECONDS == 5 * 365 * 24 * 60 * 60
MIN_SLIPPAGE_BPS == 10
MAX_SLIPPAGE_BPS == 5000
PROGRAM_VERSION == 2
PUMP_BUY_DISCRIMINATOR == <<102, 6, 61, 18, 1, 218, 235, 234>>
PUMP_SELL_DISCRIMINATOR == <<51, 230, 133, 164, 1, 127, 131, 173>>
PUMP_CREATE_DISCRIMINATOR == <<24, 30, 200, 40, 5, 28, 7, 119>>
PUMP_WITHDRAW_DISCRIMINATOR == <<183, 18, 70, 156, 148, 109, 161, 34>>
PUMPSWAP_BUY_DISCRIMINATOR == <<248, 198, 158, 145, 225, 117, 135, 200>>
PUMPSWAP_SELL_DISCRIMINATOR == <<51, 230, 133, 164, 1, 127, 131, 173>>

\* Pubkey::default(), the null identity.
Pubkey_default == "11111111111111111111111111111111"

\* MmWallet::SIZE, the byte size of the persisted record.
SIZE == 8 + 1 + 1 + 32 + 32 + 32 + 8 + 1 + 48 + 8 + 1 + 1 + 8 + 8 + 8 + 8 + 8 + 64

(***************************************************************************)
(* Integer widths.  TLC's integers are 32 bits wide, so the 64-bit types   *)
(* of the program are modelled with a narrower maximum; every checked or   *)
(* saturating operation of the code is checked or saturating against it.   *)
(* Spec, SpecLock and SpecTrade keep every amount and time so far below    *)
(* the maximum that no operation overflows, as on the 64-bit program.      *)
(***************************************************************************)
U64_MAX == 2000000000
I64_MAX == 2000000000

\* Result<T>: Ok(v) or Err(kind).
Ok(v) == [err |-> "Ok", val |-> v]
Err(e) == [err |-> e, val |-> 0]

\* u64::checked_mul, checked_div, checked_sub, saturating_sub, saturating_add.
checked_mul(a, b) ==
    IF b = 0 \/ a <= U64_MAX \div b THEN Ok(a * b) ELSE Err("MathOverflow")
checked_div(a, b) == IF b = 0 THEN Err("MathOverflow") ELSE Ok(a \div b)
checked_sub(a, b) == IF a >= b THEN Ok(a - b) ELSE Err("MathOverflow")
saturating_sub(a, b) == IF a >= b THEN a - b ELSE 0
\* Faulty variant: u64::wrapping_add in place of saturating_add.
wrapping_add(a, b) == IF a > U64_MAX - b THEN (a - (U64_MAX - b)) - 1 ELSE a + b
saturating_add(a, b) == IF a > U64_MAX - b THEN U64_MAX ELSE a + b
\* i64::checked_add on a non-negative timestamp and a duration.
checked_add_i64(a, b) ==
    IF b > 0 /\ a > I64_MAX - b THEN Err("MathOverflow") ELSE Ok(a + b)

\* u64::to_le_bytes: eight little-endian bytes.
RECURSIVE le_bytes(_, _)
le_bytes(x, n) == IF n = 0 THEN << >> ELSE <<x % 256>> \o le_bytes(x \div 256, n - 1)
to_le_bytes(x) == le_bytes(x, 8)

(***************************************************************************)
(* Policy primitives (impl MmWallet, src/lib.rs 187-225).                  *)
(***************************************************************************)
\* Faulty variant: any signer other than the null key is authorized.
is_authorized_any(w, caller) == caller # Pubkey_default

is_authorized(w, caller) == caller = w.owner \/ caller = w.operator

\* Faulty variant: the lock still holds at the instant lock_until.
is_locked_inclusive(w, current_time) == w.lock_until > 0 /\ current_time <= w.lock_until

is_locked(w, current_time) == w.lock_until > 0 /\ current_time < w.lock_until

\* Faulty variant: the cap is MAX_TRADE_PCT of the balance, whatever the
\* wallet's trade_size_pct.
max_trade_amount_at_max_pct(w, available_balance) ==
    Ok((available_balance * MAX_TRADE_PCT) \div 100)

\* Faulty variant: the cap computed without the division by 100.
max_trade_amount_undivided(w, available_balance) ==
    checked_mul(available_balance, w.config.trade_size_pct)

\* Faulty variant: the cap computed by dividing first, which never overflows.
max_trade_amount_divide_first(w, available_balance) ==
    Ok((available_balance \div 100) * w.config.trade_size_pct)

max_trade_amount(w, available_balance) ==
    LET m == checked_mul(available_balance, w.config.trade_size_pct)
    IN  IF m.err # "Ok" THEN m ELSE checked_div(m.val, 100)

\* Faulty variant: the minimum output is the expected output, as given.
calculate_min_output_as_given(w, expected_output) == Ok(expected_output)

\* Faulty variant: the minimum output rounded up instead of down.
calculate_min_output_rounded_up(w, expected_output) ==
    LET slippage_factor == checked_sub(10000, w.config.slippage_bps)
    IN  IF slippage_factor.err # "Ok" THEN slippage_factor
        ELSE LET m == checked_mul(expected_output, slippage_factor.val)
             IN  IF m.err # "Ok" THEN m
                 ELSE Ok((m.val \div 10000) + (IF m.val % 10000 = 0 THEN 0 ELSE 1))

calculate_min_output(w, expected_output) ==
    LET slippage_factor == checked_sub(10000, w.config.slippage_bps)
    IN  IF slippage_factor.err # "Ok" THEN slippage_factor
        ELSE LET m == checked_mul(expected_output, slippage_factor.val)
             IN  IF m.err # "Ok" THEN m ELSE checked_div(m.val, 10000)

\* Faulty variant: the cooldown must be strictly exceeded.
can_trade_strict(w, current_time, overflow_checks) ==
    IF w.last_trade = 0 THEN Ok(TRUE)
    ELSE LET sum == w.last_trade + w.config.min_delay_secs
         IN  IF sum <= I64_MAX THEN Ok(current_time > sum)
             ELSE IF overflow_checks THEN Err("ProgramPanic")
             ELSE Ok(current_time > ((sum - I64_MAX) - 1) - I64_MAX - 1)

\* The sum last_trade + min_delay_secs is a plain i64 addition: when it
\* passes I64_MAX a build with overflow checks panics and a build without
\* them wraps to a negative number.  The result is Ok(answer) or the panic.
can_trade(w, current_time, overflow_checks) ==
    IF w.last_trade = 0 THEN Ok(TRUE)
    ELSE LET sum == w.last_trade + w.config.min_delay_secs
         IN  IF sum <= I64_MAX THEN Ok(current_time >= sum)
             ELSE IF overflow_checks THEN Err("ProgramPanic")
             ELSE Ok(current_time >= ((sum - I64_MAX) - 1) - I64_MAX - 1)

(***************************************************************************)
(* Configuration validator (src/lib.rs 1191-1211): the error kind of the   *)
(* first violated check, or "Ok".                                          *)
(***************************************************************************)
\* Faulty variant: validate_config that checks the slippage before the trade
\* size.
validate_config_slippage_first(config) ==
    IF config.slippage_bps < MIN_SLIPPAGE_BPS \/ config.slippage_bps > MAX_SLIPPAGE_BPS
    THEN "InvalidSlippage"
    ELSE IF config.trade_size_pct < 1 \/ config.trade_size_pct > MAX_TRADE_PCT
    THEN "InvalidTradeSize"
    ELSE IF config.min_delay_secs > config.max_delay_secs
    THEN "InvalidDelayConfig"
    ELSE "Ok"

validate_config(config) ==
    IF ~(config.trade_size_pct >= 1 /\ config.trade_size_pct <= MAX_TRADE_PCT)
    THEN "InvalidTradeSize"
    ELSE IF ~(config.slippage_bps >= MIN_SLIPPAGE_BPS
              /\ config.slippage_bps <= MAX_SLIPPAGE_BPS)
    THEN "InvalidSlippage"
    ELSE IF ~(config.min_delay_secs <= config.max_delay_secs)
    THEN "InvalidDelayConfig"
    ELSE "Ok"

(***************************************************************************)
(* Outcome of one instruction: the error kind ("Ok" on success), the       *)
(* wallet record, the vault's lamports and tokens after it, and the        *)
(* external calls it issued.  A failed instruction is rolled back by the   *)
(* ledger; Fail keeps the values the handler held when it returned.        *)
(***************************************************************************)
Outcome(e, w, v, t, c) == [err |-> e, wallet |-> w, vault |-> v, tokens |-> t, cpi |-> c]
Fail(e, w, v, t) == Outcome(e, w, v, t, << >>)

\* Instruction { program_id, data } handed to invoke / invoke_signed.
Instruction(program_id, data) == [program_id |-> program_id, data |-> data]

(***************************************************************************)
(* The venue behind invoke_signed.  The call either fails (venue_ok false, *)
(* or the vault cannot pay) or moves pay_* out of the vault and get_* into *)
(* it.                                                                     *)
(***************************************************************************)
invoke_signed(venue_ok, pda_balance, tok, pay_lamports, pay_tokens, get_lamports, get_tokens) ==
    IF ~venue_ok \/ pda_balance < pay_lamports \/ tok < pay_tokens
       \/ pda_balance - pay_lamports > U64_MAX - get_lamports
       \/ tok - pay_tokens > U64_MAX - get_tokens
    THEN [ok |-> FALSE, vault |-> pda_balance, tokens |-> tok]
    ELSE [ok |-> TRUE, vault |-> (pda_balance - pay_lamports) + get_lamports,
          tokens |-> (tok - pay_tokens) + get_tokens]

(***************************************************************************)
(* initialize (src/lib.rs 389-452).  The account is created, zero-filled,  *)
(* by the init constraint of the Initialize context before the handler     *)
(* runs.  The handler writes the fields in order; the lock computation is  *)
(* its only fallible step after the first write.                           *)
(***************************************************************************)
ZeroedConfig ==
    [trade_size_pct |-> 0, min_delay_secs |-> 0, max_delay_secs |-> 0,
     slippage_bps |-> 0, param1 |-> 0, param2 |-> 0, param3 |-> 0]

ZeroedWallet ==
    [version |-> 0, owner |-> Pubkey_default, operator |-> Pubkey_default,
     token_mint |-> Pubkey_default, nonce |-> 0, strategy |-> "VolumeBot",
     config |-> ZeroedConfig, lock_until |-> 0, paused |-> FALSE,
     is_creator |-> FALSE, total_volume |-> 0, total_trades |-> 0,
     total_fees_claimed |-> 0, last_trade |-> 0, created_at |-> 0]

\* impl Default for MmWallet: every field zero except the version.
MmWallet_default == [ZeroedWallet EXCEPT !.version = PROGRAM_VERSION]

\* Faulty variant: initialize that computes lock_until from the clock even
\* when lock_seconds is 0.
initialize_always_locks(owner_key, nonce, lock_seconds, strategy, config, operator, unix_timestamp) ==
    IF ~(lock_seconds >= MIN_LOCK_SECONDS /\ lock_seconds <= MAX_LOCK_SECONDS)
    THEN [err |-> "InvalidLockDuration", val |-> ZeroedWallet]
    ELSE IF ~(operator # Pubkey_default)
    THEN [err |-> "InvalidOperator", val |-> ZeroedWallet]
    ELSE IF validate_config(config) # "Ok"
    THEN [err |-> validate_config(config), val |-> ZeroedWallet]
    ELSE Ok([ZeroedWallet EXCEPT !.version = PROGRAM_VERSION,
                                 !.owner = owner_key,
                                 !.operator = operator,
                                 !.nonce = nonce,
                                 !.strategy = strategy,
                                 !.config = config,
                                 !.lock_until = unix_timestamp + lock_seconds,
                                 !.created_at = unix_timestamp])

initialize(owner_key, nonce, lock_seconds, strategy, config, operator, unix_timestamp) ==
    IF ~(lock_seconds >= MIN_LOCK_SECONDS /\ lock_seconds <= MAX_LOCK_SECONDS)
    THEN [err |-> "InvalidLockDuration", val |-> ZeroedWallet]
    ELSE IF ~(operator # Pubkey_default)
    THEN [err |-> "InvalidOperator", val |-> ZeroedWallet]
    ELSE IF validate_config(config) # "Ok"
    THEN [err |-> validate_config(config), val |-> ZeroedWallet]
    ELSE LET w1 == [ZeroedWallet EXCEPT !.version = PROGRAM_VERSION,
                                        !.owner = owner_key,
                                        !.operator = operator,
                                        !.token_mint = Pubkey_default,
                                        !.nonce = nonce,
                                        !.strategy = strategy,
                                        !.config = config]
             lock == IF lock_seconds > 0
                     THEN checked_add_i64(unix_timestamp, lock_seconds)
                     ELSE Ok(0)
         IN  IF lock.err # "Ok" THEN [err |-> "MathOverflow", val |-> w1]
             ELSE Ok([w1 EXCEPT !.lock_until = lock.val,
                                !.paused = FALSE,
                                !.is_creator = FALSE,
                                !.total_volume = 0,
                                !.total_trades = 0,
                                !.total_fees_claimed = 0,
                                !.last_trade = 0,
                                !.created_at = unix_timestamp])

(***************************************************************************)
(* deposit (src/lib.rs 460-489).  depositor_lamports is what the depositor *)
(* holds; the system transfer fails when it is less than amount.           *)
(***************************************************************************)
\* Faulty variant: deposit that refuses a paused wallet.
deposit_unless_paused(w, pda_balance, tok, depositor_lamports, amount) ==
    IF w.paused THEN Fail("TradingPaused", w, pda_balance, tok)
    ELSE IF amount = 0 THEN Fail("ZeroDeposit", w, pda_balance, tok)
    ELSE IF depositor_lamports < amount \/ pda_balance > U64_MAX - amount
    THEN Fail("TransferFailed", w, pda_balance, tok)
    ELSE Outcome("Ok", w, pda_balance + amount, tok,
                 <<Instruction("SystemProgram", <<"transfer", amount>>)>>)

\* Faulty variant: deposit that counts the amount in the wallet's volume.
deposit_counted(w, pda_balance, tok, depositor_lamports, amount) ==
    IF ~(amount > 0) THEN Fail("ZeroDeposit", w, pda_balance, tok)
    ELSE IF depositor_lamports < amount \/ pda_balance > U64_MAX - amount
    THEN Fail("TransferFailed", w, pda_balance, tok)
    ELSE Outcome("Ok", [w EXCEPT !.total_volume = saturating_add(@, amount)],
                 pda_balance + amount, tok,
                 <<Instruction("SystemProgram", <<"transfer", amount>>)>>)

deposit(w, pda_balance, tok, depositor_lamports, amount) ==
    IF ~(amount > 0) THEN Fail("ZeroDeposit", w, pda_balance, tok)
    ELSE IF depositor_lamports < amount \/ pda_balance > U64_MAX - amount
    THEN Fail("TransferFailed", w, pda_balance, tok)
    ELSE Outcome("Ok", w, pda_balance + amount, tok,
                 <<Instruction("SystemProgram", <<"transfer", amount>>)>>)

\* Faulty variant: withdraw that a paused wallet refuses.
withdraw_unless_paused(w, pda_balance, tok, owner_key, destination_key, amount, unix_timestamp) ==
    IF owner_key # w.owner THEN Fail("Unauthorized", w, pda_balance, tok)
    ELSE IF w.paused THEN Fail("TradingPaused", w, pda_balance, tok)
    ELSE IF w.lock_until > 0 /\ unix_timestamp < w.lock_until
    THEN Fail("WalletLocked", w, pda_balance, tok)
    ELSE IF destination_key # w.owner
    THEN Fail("InvalidWithdrawDestination", w, pda_balance, tok)
    ELSE IF amount + MIN_RENT_RESERVE > pda_balance
    THEN Fail("BelowRentReserve", w, pda_balance, tok)
    ELSE Outcome("Ok", w, pda_balance - amount, tok, << >>)

\* Faulty variant: withdraw that lets the whole balance go, reserve included.
withdraw_without_reserve(w, pda_balance, tok, owner_key, destination_key, amount, unix_timestamp) ==
    IF owner_key # w.owner THEN Fail("Unauthorized", w, pda_balance, tok)
    ELSE IF w.lock_until > 0 /\ unix_timestamp < w.lock_until
    THEN Fail("WalletLocked", w, pda_balance, tok)
    ELSE IF destination_key # w.owner
    THEN Fail("InvalidWithdrawDestination", w, pda_balance, tok)
    ELSE IF amount > pda_balance THEN Fail("BelowRentReserve", w, pda_balance, tok)
    ELSE Outcome("Ok", w, pda_balance - amount, tok, << >>)

(***************************************************************************)
(* withdraw (src/lib.rs 496-539).                                          *)
(***************************************************************************)
withdraw(w, pda_balance, tok, owner_key, destination_key, amount, unix_timestamp) ==
    IF ~(owner_key = w.owner)
    THEN Fail("Unauthorized", w, pda_balance, tok)
    ELSE IF ~(~is_locked(w, unix_timestamp))
    THEN Fail("WalletLocked", w, pda_balance, tok)
    ELSE IF ~(destination_key = w.owner)
    THEN Fail("InvalidWithdrawDestination", w, pda_balance, tok)
    ELSE LET max_withdraw == saturating_sub(pda_balance, MIN_RENT_RESERVE)
         IN  IF ~(amount <= max_withdraw)
             THEN Fail("BelowRentReserve", w, pda_balance, tok)
             ELSE Outcome("Ok", w, pda_balance - amount, tok, << >>)

\* Faulty variant: withdraw_tokens that accepts any mint.
withdraw_tokens_any_mint(w, pda_balance, tok, owner_key, token_mint_key, unix_timestamp, token_ok) ==
    IF ~(owner_key = w.owner)
    THEN Fail("Unauthorized", w, pda_balance, tok)
    ELSE IF ~(~is_locked(w, unix_timestamp))
    THEN Fail("WalletLocked", w, pda_balance, tok)
    ELSE IF tok = 0
    THEN Outcome("Ok", w, pda_balance, tok, << >>)
    ELSE IF ~token_ok
    THEN Fail("TokenTransferFailed", w, pda_balance, tok)
    ELSE Outcome("Ok", w, pda_balance, 0, <<Instruction("TokenProgram", <<"transfer", tok>>)>>)

(***************************************************************************)
(* withdraw_tokens (src/lib.rs 542-596).  tok is pda_token_account.amount; *)
(* token_ok is whether the token program accepts the transfer between the  *)
(* two token accounts the caller handed in.                                *)
(***************************************************************************)
withdraw_tokens(w, pda_balance, tok, owner_key, token_mint_key, unix_timestamp, token_ok) ==
    IF ~(owner_key = w.owner)
    THEN Fail("Unauthorized", w, pda_balance, tok)
    ELSE IF ~(~is_locked(w, unix_timestamp))
    THEN Fail("WalletLocked", w, pda_balance, tok)
    ELSE IF ~(token_mint_key = w.token_mint)
    THEN Fail("TokenMintMismatch", w, pda_balance, tok)
    ELSE LET amount == tok
         IN  IF amount = 0
             THEN Outcome("Ok", w, pda_balance, tok, << >>)
             ELSE IF ~token_ok
             THEN Fail("TokenTransferFailed", w, pda_balance, tok)
             ELSE Outcome("Ok", w, pda_balance, tok - amount,
                          <<Instruction("TokenProgram", <<"transfer", amount>>)>>)

(***************************************************************************)
(* execute_buy (src/lib.rs 610-697): a buy on the bonding-curve venue.     *)
(***************************************************************************)
execute_buy(w, pda_balance, tok, caller, target_program, amount_lamports, expected_tokens, unix_timestamp, venue_ok, overflow_checks) ==
    IF ~is_authorized(w, caller)
    THEN Fail("UnauthorizedOperator", w, pda_balance, tok)
    ELSE IF ~(~w.paused)
    THEN Fail("TradingPaused", w, pda_balance, tok)
    ELSE IF can_trade(w, unix_timestamp, overflow_checks).err # "Ok"
    THEN Fail("ProgramPanic", w, pda_balance, tok)
    ELSE IF ~can_trade(w, unix_timestamp, overflow_checks).val
    THEN Fail("TradeTooSoon", w, pda_balance, tok)
    ELSE LET available == saturating_sub(pda_balance, MIN_RENT_RESERVE)
             max_trade == max_trade_amount(w, available)
         IN  IF max_trade.err # "Ok"
             THEN Fail(max_trade.err, w, pda_balance, tok)
             ELSE IF ~(amount_lamports <= max_trade.val)
             THEN Fail("TradeExceedsMax", w, pda_balance, tok)
             ELSE IF ~(amount_lamports <= available)
             THEN Fail("InsufficientBalance", w, pda_balance, tok)
             ELSE IF ~(target_program = PUMP_FUN_PROGRAM)
             THEN Fail("InvalidProgram", w, pda_balance, tok)
             ELSE LET min_tokens_out == calculate_min_output(w, expected_tokens)
                  IN  IF min_tokens_out.err # "Ok"
                      THEN Fail(min_tokens_out.err, w, pda_balance, tok)
                      ELSE LET ix == Instruction(PUMP_FUN_PROGRAM,
                                        PUMP_BUY_DISCRIMINATOR
                                        \o to_le_bytes(min_tokens_out.val)
                                        \o to_le_bytes(amount_lamports))
                               r == invoke_signed(venue_ok, pda_balance, tok,
                                        amount_lamports, 0, 0, min_tokens_out.val)
                           IN  IF ~r.ok
                               THEN Fail("VenueError", w, pda_balance, tok)
                               ELSE Outcome("Ok",
                                      [w EXCEPT
                                         !.total_volume = saturating_add(@, amount_lamports),
                                         !.total_trades = saturating_add(@, 1),
                                         !.last_trade = unix_timestamp],
                                      r.vault, r.tokens, <<ix>>)

(***************************************************************************)
(* execute_sell (src/lib.rs 700-778): a sell on the bonding-curve venue.   *)
(***************************************************************************)
\* Faulty variant: execute_sell that counts the tokens sold in the volume.
execute_sell_counts_tokens(w, pda_balance, tok, caller, target_program, token_amount, expected_sol, unix_timestamp, venue_ok, overflow_checks) ==
    IF ~is_authorized(w, caller)
    THEN Fail("UnauthorizedOperator", w, pda_balance, tok)
    ELSE IF ~(~w.paused)
    THEN Fail("TradingPaused", w, pda_balance, tok)
    ELSE IF can_trade(w, unix_timestamp, overflow_checks).err # "Ok"
    THEN Fail("ProgramPanic", w, pda_balance, tok)
    ELSE IF ~can_trade(w, unix_timestamp, overflow_checks).val
    THEN Fail("TradeTooSoon", w, pda_balance, tok)
    ELSE IF ~(target_program = PUMP_FUN_PROGRAM)
    THEN Fail("InvalidProgram", w, pda_balance, tok)
    ELSE LET min_sol_out == calculate_min_output(w, expected_sol)
         IN  IF min_sol_out.err # "Ok"
             THEN Fail(min_sol_out.err, w, pda_balance, tok)
             ELSE LET ix == Instruction(PUMP_FUN_PROGRAM,
                               PUMP_SELL_DISCRIMINATOR
                               \o to_le_bytes(token_amount)
                               \o to_le_bytes(min_sol_out.val))
                      r == invoke_signed(venue_ok, pda_balance, tok,
                               0, token_amount, min_sol_out.val, 0)
                  IN  IF ~r.ok
                      THEN Fail("VenueError", w, pda_balance, tok)
                      ELSE Outcome("Ok",
                             [w EXCEPT
                                !.total_volume = saturating_add(@, token_amount),
                                !.total_trades = saturating_add(@, 1),
                                !.last_trade = unix_timestamp],
                             r.vault, r.tokens, <<ix>>)

\* Faulty variant: execute_sell that sends the call to the program it is given.
execute_sell_to_target(w, pda_balance, tok, caller, target_program, token_amount, expected_sol, unix_timestamp, venue_ok, overflow_checks) ==
    IF ~is_authorized(w, caller)
    THEN Fail("UnauthorizedOperator", w, pda_balance, tok)
    ELSE IF w.paused
    THEN Fail("TradingPaused", w, pda_balance, tok)
    ELSE IF can_trade(w, unix_timestamp, overflow_checks).err # "Ok"
    THEN Fail("ProgramPanic", w, pda_balance, tok)
    ELSE IF ~can_trade(w, unix_timestamp, overflow_checks).val
    THEN Fail("TradeTooSoon", w, pda_balance, tok)
    ELSE LET min_sol_out == calculate_min_output(w, expected_sol)
             r == invoke_signed(venue_ok, pda_balance, tok, 0, token_amount, min_sol_out.val, 0)
         IN  IF min_sol_out.err # "Ok" THEN Fail(min_sol_out.err, w, pda_balance, tok)
             ELSE IF ~r.ok THEN Fail("VenueError", w, pda_balance, tok)
             ELSE Outcome("Ok",
                    [w EXCEPT !.total_volume = saturating_add(@, expected_sol),
                              !.total_trades = saturating_add(@, 1),
                              !.last_trade = unix_timestamp],
                    r.vault, r.tokens,
                    <<Instruction(target_program,
                                  PUMP_SELL_DISCRIMINATOR \o to_le_bytes(token_amount)
                                  \o to_le_bytes(min_sol_out.val))>>)

execute_sell(w, pda_balance, tok, caller, target_program, token_amount, expected_sol, unix_timestamp, venue_ok, overflow_checks) ==
    IF ~is_authorized(w, caller)
    THEN Fail("UnauthorizedOperator", w, pda_balance, tok)
    ELSE IF ~(~w.paused)
    THEN Fail("TradingPaused", w, pda_balance, tok)
    ELSE IF can_trade(w, unix_timestamp, overflow_checks).err # "Ok"
    THEN Fail("ProgramPanic", w, pda_balance, tok)
    ELSE IF ~can_trade(w, unix_timestamp, overflow_checks).val
    THEN Fail("TradeTooSoon", w, pda_balance, tok)
    ELSE IF ~(target_program = PUMP_FUN_PROGRAM)
    THEN Fail("InvalidProgram", w, pda_balance, tok)
    ELSE LET min_sol_out == calculate_min_output(w, expected_sol)
         IN  IF min_sol_out.err # "Ok"
             THEN Fail(min_sol_out.err, w, pda_balance, tok)
             ELSE LET ix == Instruction(PUMP_FUN_PROGRAM,
                               PUMP_SELL_DISCRIMINATOR
                               \o to_le_bytes(token_amount)
                               \o to_le_bytes(min_sol_out.val))
                      r == invoke_signed(venue_ok, pda_balance, tok,
                               0, token_amount, min_sol_out.val, 0)
                  IN  IF ~r.ok
                      THEN Fail("VenueError", w, pda_balance, tok)
                      ELSE Outcome("Ok",
                             [w EXCEPT
                                !.total_volume = saturating_add(@, expected_sol),
                                !.total_trades = saturating_add(@, 1),
                                !.last_trade = unix_timestamp],
                             r.vault, r.tokens, <<ix>>)

(***************************************************************************)
(* execute_swap (src/lib.rs 781-877): a swap on the AMM venue.             *)
(***************************************************************************)
execute_swap(w, pda_balance, tok, caller, target_program, amount_in, expected_out, is_buy, unix_timestamp, venue_ok, overflow_checks) ==
    IF ~is_authorized(w, caller)
    THEN Fail("UnauthorizedOperator", w, pda_balance, tok)
    ELSE IF ~(~w.paused)
    THEN Fail("TradingPaused", w, pda_balance, tok)
    ELSE IF can_trade(w, unix_timestamp, overflow_checks).err # "Ok"
    THEN Fail("ProgramPanic", w, pda_balance, tok)
    ELSE IF ~can_trade(w, unix_timestamp, overflow_checks).val
    THEN Fail("TradeTooSoon", w, pda_balance, tok)
    ELSE IF ~(target_program = PUMPSWAP_PROGRAM)
    THEN Fail("InvalidProgram", w, pda_balance, tok)
    ELSE LET available == saturating_sub(pda_balance, MIN_RENT_RESERVE)
             max_trade == IF is_buy THEN max_trade_amount(w, available) ELSE Ok(0)
         IN  IF is_buy /\ max_trade.err # "Ok"
             THEN Fail(max_trade.err, w, pda_balance, tok)
             ELSE IF is_buy /\ ~(amount_in <= max_trade.val)
             THEN Fail("TradeExceedsMax", w, pda_balance, tok)
             ELSE IF is_buy /\ ~(amount_in <= available)
             THEN Fail("InsufficientBalance", w, pda_balance, tok)
             ELSE LET min_amount_out == calculate_min_output(w, expected_out)
                  IN  IF min_amount_out.err # "Ok"
                      THEN Fail(min_amount_out.err, w, pda_balance, tok)
                      ELSE LET discriminator == IF is_buy
                                                THEN PUMPSWAP_BUY_DISCRIMINATOR
                                                ELSE PUMPSWAP_SELL_DISCRIMINATOR
                               ix == Instruction(PUMPSWAP_PROGRAM,
                                        discriminator
                                        \o to_le_bytes(amount_in)
                                        \o to_le_bytes(min_amount_out.val))
                               r == IF is_buy
                                    THEN invoke_signed(venue_ok, pda_balance, tok,
                                             amount_in, 0, 0, min_amount_out.val)
                                    ELSE invoke_signed(venue_ok, pda_balance, tok,
                                             0, amount_in, min_amount_out.val, 0)
                           IN  IF ~r.ok
                               THEN Fail("VenueError", w, pda_balance, tok)
                               ELSE Outcome("Ok",
                                      [w EXCEPT
                                         !.total_volume = saturating_add(@, amount_in),
                                         !.total_trades = saturating_add(@, 1),
                                         !.last_trade = unix_timestamp],
                                      r.vault, r.tokens, <<ix>>)

(***************************************************************************)
(* claim_fees (src/lib.rs 884-946).  fee is the net amount the venue call   *)
(* adds to the vault; it is negative when the call leaves the vault with   *)
(* less than it held.                                                      *)
(***************************************************************************)
\* Faulty variant: claim_fees that omits the pause guard.
claim_fees_while_paused(w, pda_balance, tok, caller, fee, venue_ok) ==
    IF ~(caller = w.owner \/ caller = w.operator)
    THEN Fail("UnauthorizedOperator", w, pda_balance, tok)
    ELSE IF ~w.is_creator
    THEN Fail("Unauthorized", w, pda_balance, tok)
    ELSE IF ~venue_ok
    THEN Fail("VenueError", w, pda_balance, tok)
    ELSE Outcome("Ok", [w EXCEPT !.total_fees_claimed = saturating_add(@, fee)],
                 pda_balance + fee, tok,
                 <<Instruction(PUMP_FUN_PROGRAM, PUMP_WITHDRAW_DISCRIMINATOR)>>)

\* Faulty variant: claim_fees that adds the signed balance difference.
claim_fees_unsaturated(w, pda_balance, tok, caller, fee, venue_ok) ==
    IF ~(caller = w.owner \/ caller = w.operator)
    THEN Fail("UnauthorizedOperator", w, pda_balance, tok)
    ELSE IF w.paused
    THEN Fail("TradingPaused", w, pda_balance, tok)
    ELSE IF ~w.is_creator
    THEN Fail("Unauthorized", w, pda_balance, tok)
    ELSE IF ~venue_ok \/ pda_balance + fee < 0
    THEN Fail("VenueError", w, pda_balance, tok)
    ELSE Outcome("Ok", [w EXCEPT !.total_fees_claimed = @ + fee],
                 pda_balance + fee, tok,
                 <<Instruction(PUMP_FUN_PROGRAM, PUMP_WITHDRAW_DISCRIMINATOR)>>)

claim_fees(w, pda_balance, tok, caller, fee, venue_ok) ==
    IF ~is_authorized(w, caller)
    THEN Fail("UnauthorizedOperator", w, pda_balance, tok)
    ELSE IF ~(~w.paused)
    THEN Fail("TradingPaused", w, pda_balance, tok)
    ELSE IF ~w.is_creator
    THEN Fail("Unauthorized", w, pda_balance, tok)
    ELSE LET balance_before == pda_balance
             ix == Instruction(PUMP_FUN_PROGRAM, PUMP_WITHDRAW_DISCRIMINATOR)
             r == invoke_signed(venue_ok, pda_balance, tok,
                                IF fee < 0 THEN 0 - fee ELSE 0, 0,
                                IF fee > 0 THEN fee ELSE 0, 0)
         IN  IF ~r.ok
             THEN Fail("VenueError", w, pda_balance, tok)
             ELSE LET balance_after == r.vault
                      fees_claimed == saturating_sub(balance_after, balance_before)
                  IN  Outcome("Ok",
                        [w EXCEPT !.total_fees_claimed = saturating_add(@, fees_claimed)],
                        r.vault, r.tokens, <<ix>>)

(***************************************************************************)
(* create_token (src/lib.rs 953-1014).  name, symbol and uri are the UTF-8 *)
(* bytes of the three strings.                                             *)
(***************************************************************************)
create_token(w, pda_balance, tok, owner_key, name, symbol, uri, venue_ok) ==
    IF ~(owner_key = w.owner)
    THEN Fail("Unauthorized", w, pda_balance, tok)
    ELSE IF ~(w.token_mint = Pubkey_default)
    THEN Fail("AlreadyInitialized", w, pda_balance, tok)
    ELSE LET ix == Instruction(PUMP_FUN_PROGRAM,
                      PUMP_CREATE_DISCRIMINATOR
                      \o le_bytes(Len(name), 4) \o name
                      \o le_bytes(Len(symbol), 4) \o symbol
                      \o le_bytes(Len(uri), 4) \o uri)
             r == invoke_signed(venue_ok, pda_balance, tok, 0, 0, 0, 0)
         IN  IF ~r.ok
             THEN Fail("VenueError", w, pda_balance, tok)
             ELSE Outcome("Ok", [w EXCEPT !.is_creator = TRUE],
                          r.vault, r.tokens, <<ix>>)

(***************************************************************************)
(* set_token_mint (src/lib.rs 1017-1040).                                  *)
(***************************************************************************)
\* Faulty variant: set_token_mint that marks the wallet as creator.
set_token_mint_as_creator(w, pda_balance, tok, owner_key, token_mint_account) ==
    IF ~(owner_key = w.owner)
    THEN Fail("Unauthorized", w, pda_balance, tok)
    ELSE IF ~(w.token_mint = Pubkey_default)
    THEN Fail("TokenMintAlreadySet", w, pda_balance, tok)
    ELSE Outcome("Ok", [w EXCEPT !.token_mint = token_mint_account, !.is_creator = TRUE],
                 pda_balance, tok, << >>)

\* Faulty variant: set_token_mint that overwrites a mint already recorded.
set_token_mint_again(w, pda_balance, tok, owner_key, token_mint_account) ==
    IF ~(owner_key = w.owner)
    THEN Fail("Unauthorized", w, pda_balance, tok)
    ELSE Outcome("Ok", [w EXCEPT !.token_mint = token_mint_account],
                 pda_balance, tok, << >>)

set_token_mint(w, pda_balance, tok, owner_key, token_mint_account) ==
    IF ~(owner_key = w.owner)
    THEN Fail("Unauthorized", w, pda_balance, tok)
    ELSE IF ~(w.token_mint = Pubkey_default)
    THEN Fail("TokenMintAlreadySet", w, pda_balance, tok)
    ELSE Outcome("Ok", [w EXCEPT !.token_mint = token_mint_account],
                 pda_balance, tok, << >>)

(***************************************************************************)
(* update_strategy (src/lib.rs 1047-1077).                                 *)
(***************************************************************************)
\* Faulty variant: update_strategy that stores the configuration unvalidated.
update_strategy_unvalidated(w, pda_balance, tok, owner_key, strategy, config) ==
    IF owner_key # w.owner THEN Fail("Unauthorized", w, pda_balance, tok)
    ELSE Outcome("Ok", [w EXCEPT !.strategy = strategy, !.config = config], pda_balance, tok, << >>)

update_strategy(w, pda_balance, tok, owner_key, strategy, config) ==
    IF ~(owner_key = w.owner)
    THEN Fail("Unauthorized", w, pda_balance, tok)
    ELSE IF validate_config(config) # "Ok"
    THEN Fail(validate_config(config), w, pda_balance, tok)
    ELSE Outcome("Ok", [w EXCEPT !.strategy = strategy, !.config = config],
                 pda_balance, tok, << >>)

(***************************************************************************)
(* set_operator (src/lib.rs 1080-1108).                                    *)
(***************************************************************************)
\* Faulty variant: set_operator that accepts the null key.
set_operator_unchecked(w, pda_balance, tok, owner_key, new_operator) ==
    IF owner_key # w.owner THEN Fail("Unauthorized", w, pda_balance, tok)
    ELSE Outcome("Ok", [w EXCEPT !.operator = new_operator], pda_balance, tok, << >>)

\* Faulty variant: set_operator that hands the wallet over to the new key.
set_operator_as_owner(w, pda_balance, tok, owner_key, new_operator) ==
    IF ~(owner_key = w.owner)
    THEN Fail("Unauthorized", w, pda_balance, tok)
    ELSE IF ~(new_operator # Pubkey_default)
    THEN Fail("InvalidOperator", w, pda_balance, tok)
    ELSE Outcome("Ok", [w EXCEPT !.owner = new_operator, !.operator = new_operator],
                 pda_balance, tok, << >>)

set_operator(w, pda_balance, tok, owner_key, new_operator) ==
    IF ~(owner_key = w.owner)
    THEN Fail("Unauthorized", w, pda_balance, tok)
    ELSE IF ~(new_operator # Pubkey_default)
    THEN Fail("InvalidOperator", w, pda_balance, tok)
    ELSE Outcome("Ok", [w EXCEPT !.operator = new_operator],
                 pda_balance, tok, << >>)

(***************************************************************************)
(* pause and resume (src/lib.rs 1111-1142).                                *)
(***************************************************************************)
\* Faulty variant: pause that a wallet with a lock refuses.
pause_unless_locked(w, pda_balance, tok, owner_key) ==
    IF ~(owner_key = w.owner) THEN Fail("Unauthorized", w, pda_balance, tok)
    ELSE IF w.lock_until > 0 THEN Fail("WalletLocked", w, pda_balance, tok)
    ELSE Outcome("Ok", [w EXCEPT !.paused = TRUE], pda_balance, tok, << >>)

\* Faulty variant: pause that omits the owner guard.
pause_unchecked(w, pda_balance, tok, owner_key) ==
    Outcome("Ok", [w EXCEPT !.paused = TRUE], pda_balance, tok, << >>)

pause(w, pda_balance, tok, owner_key) ==
    IF ~(owner_key = w.owner)
    THEN Fail("Unauthorized", w, pda_balance, tok)
    ELSE Outcome("Ok", [w EXCEPT !.paused = TRUE], pda_balance, tok, << >>)

\* Faulty variant: resume that also clears the lock.
resume_and_unlock(w, pda_balance, tok, owner_key) ==
    IF owner_key # w.owner THEN Fail("Unauthorized", w, pda_balance, tok)
    ELSE Outcome("Ok", [w EXCEPT !.paused = FALSE, !.lock_until = 0], pda_balance, tok,
                 << >>)

resume(w, pda_balance, tok, owner_key) ==
    IF ~(owner_key = w.owner)
    THEN Fail("Unauthorized", w, pda_balance, tok)
    ELSE Outcome("Ok", [w EXCEPT !.paused = FALSE], pda_balance, tok, << >>)

(***************************************************************************)
(* extend_lock (src/lib.rs 1145-1184).                                     *)
(***************************************************************************)
\* Faulty variant: extend_lock without the limit on the total lock.
extend_lock_uncapped(w, pda_balance, tok, owner_key, additional_seconds, unix_timestamp) ==
    IF ~(owner_key = w.owner)
    THEN Fail("Unauthorized", w, pda_balance, tok)
    ELSE IF ~(additional_seconds > 0 /\ additional_seconds <= MAX_LOCK_SECONDS)
    THEN Fail("InvalidLockDuration", w, pda_balance, tok)
    ELSE LET new_lock == IF w.lock_until > unix_timestamp
                         THEN checked_add_i64(w.lock_until, additional_seconds)
                         ELSE checked_add_i64(unix_timestamp, additional_seconds)
         IN  IF new_lock.err # "Ok"
             THEN Fail("MathOverflow", w, pda_balance, tok)
             ELSE Outcome("Ok", [w EXCEPT !.lock_until = new_lock.val],
                          pda_balance, tok, << >>)

\* Faulty variant: extend_lock that always counts from the current time.
extend_lock_from_now(w, pda_balance, tok, owner_key, additional_seconds, unix_timestamp) ==
    IF owner_key # w.owner THEN Fail("Unauthorized", w, pda_balance, tok)
    ELSE IF ~(additional_seconds > 0 /\ additional_seconds <= MAX_LOCK_SECONDS)
    THEN Fail("InvalidLockDuration", w, pda_balance, tok)
    ELSE IF unix_timestamp + additional_seconds > unix_timestamp + MAX_TOTAL_LOCK_SECONDS
    THEN Fail("LockTooLong", w, pda_balance, tok)
    ELSE Outcome("Ok", [w EXCEPT !.lock_until = unix_timestamp + additional_seconds],
                 pda_balance, tok, << >>)

\* Faulty variant: extend_lock that stores the new lock before it computes
\* the longest lock allowed.
extend_lock_writes_first(w, pda_balance, tok, owner_key, additional_seconds, unix_timestamp) ==
    IF owner_key # w.owner THEN Fail("Unauthorized", w, pda_balance, tok)
    ELSE IF ~(additional_seconds > 0 /\ additional_seconds <= MAX_LOCK_SECONDS)
    THEN Fail("InvalidLockDuration", w, pda_balance, tok)
    ELSE LET new_lock == IF w.lock_until > unix_timestamp
                         THEN checked_add_i64(w.lock_until, additional_seconds)
                         ELSE checked_add_i64(unix_timestamp, additional_seconds)
             max_allowed == checked_add_i64(unix_timestamp, MAX_TOTAL_LOCK_SECONDS)
             written == [w EXCEPT !.lock_until = new_lock.val]
         IN  IF new_lock.err # "Ok" THEN Fail("MathOverflow", w, pda_balance, tok)
             ELSE IF max_allowed.err # "Ok" THEN Fail("MathOverflow", written, pda_balance, tok)
             ELSE IF ~(new_lock.val <= max_allowed.val)
             THEN Fail("LockTooLong", written, pda_balance, tok)
             ELSE Outcome("Ok", written, pda_balance, tok, << >>)

extend_lock(w, pda_balance, tok, owner_key, additional_seconds, unix_timestamp) ==
    IF ~(owner_key = w.owner)
    THEN Fail("Unauthorized", w, pda_balance, tok)
    ELSE IF ~(additional_seconds > 0 /\ additional_seconds <= MAX_LOCK_SECONDS)
    THEN Fail("InvalidLockDuration", w, pda_balance, tok)
    ELSE LET new_lock == IF w.lock_until > unix_timestamp
                         THEN checked_add_i64(w.lock_until, additional_seconds)
                         ELSE checked_add_i64(unix_timestamp, additional_seconds)
         IN  IF new_lock.err # "Ok"
             THEN Fail("MathOverflow", w, pda_balance, tok)
             ELSE LET max_allowed == checked_add_i64(unix_timestamp, MAX_TOTAL_LOCK_SECONDS)
                  IN  IF max_allowed.err # "Ok"
                      THEN Fail("MathOverflow", w, pda_balance, tok)
                      ELSE IF ~(new_lock.val <= max_allowed.val)
                      THEN Fail("LockTooLong", w, pda_balance, tok)
                      ELSE Outcome("Ok", [w EXCEPT !.lock_until = new_lock.val],
                                   pda_balance, tok, << >>)

(***************************************************************************)
(* The state machine.                                                      *)
(*   wallets  the MmWallet account of every initialized (owner, nonce) key *)
(*   vaults   the lamports of the key's PDA (pda_wallet)                   *)
(*   tokens   the asset tokens the PDA holds (pda_token_account.amount)    *)
(*   now      Clock::get()?.unix_timestamp                                 *)
(*   last     the instruction that has just executed and whose result has  *)
(*            not yet been returned: its name, signer, main arguments,     *)
(*            error kind, the wallet record its handler held on return and *)
(*            the external calls it issued; Idle between instructions      *)
(* The ledger serializes instructions: one executes (an instruction        *)
(* action), its result is returned (Return), then the next one executes.   *)
(***************************************************************************)

\* Bounds of the exploration.
StartTime == 1000
MaxTicks == 1
MaxTrades == 2
MaxVault == 40000000
DepositUnit == 30000000
ExpectedUnit == 100
FeeUnit == 500

\* Lamports the account holds once init has created it rent-exempt
\* (space = MmWallet::SIZE).
RentExemptMinimum == (128 + SIZE) * 3480 * 2

Config(pct, min_delay, max_delay, slippage) ==
    [trade_size_pct |-> pct, min_delay_secs |-> min_delay, max_delay_secs |-> max_delay,
     slippage_bps |-> slippage, param1 |-> 0, param2 |-> 0, param3 |-> 0]

Signers == {"alice", "bob", "carol"}
Programs == {PUMP_FUN_PROGRAM, PUMPSWAP_PROGRAM}
Mints == {"MintA", "MintB"}
TokenName == <<77, 77>>
TokenSymbol == <<77>>
TokenUri == <<104, 116, 116, 112>>

NoKey == <<Pubkey_default, 0>>

Idle ==
    [op |-> "idle", key |-> NoKey, caller |-> Pubkey_default, amount |-> 0,
     target |-> Pubkey_default, is_buy |-> FALSE, err |-> "Ok", mem |-> ZeroedWallet,
     cpi |-> << >>, pre |-> ZeroedWallet, pre_vault |-> 0, pre_tokens |-> 0]

\* pre, pre_vault and pre_tokens are the account values the instruction was given.
Record(op, k, caller, amount, target, is_buy, err, mem, cpi, pre, pre_vault, pre_tokens) ==
    [op |-> op, key |-> k, caller |-> caller, amount |-> amount, target |-> target,
     is_buy |-> is_buy, err |-> err, mem |-> mem, cpi |-> cpi,
     pre |-> pre, pre_vault |-> pre_vault, pre_tokens |-> pre_tokens]

\* One instruction on an existing wallet: committed when it returns Ok, rolled
\* back by the ledger when it returns an error.
Apply(op, k, caller, amount, target, is_buy, out) ==
    /\ last = Idle
    /\ wallets' = IF out.err = "Ok" THEN [wallets EXCEPT ![k] = out.wallet] ELSE wallets
    /\ vaults' = IF out.err = "Ok" THEN [vaults EXCEPT ![k] = out.vault] ELSE vaults
    /\ tokens' = IF out.err = "Ok" THEN [tokens EXCEPT ![k] = out.tokens] ELSE tokens
    /\ last' = Record(op, k, caller, amount, target, is_buy, out.err, out.wallet, out.cpi,
                      wallets[k], vaults[k], tokens[k])
    /\ UNCHANGED now

Init ==
    /\ wallets = [k \in {} |-> ZeroedWallet]
    /\ vaults = [k \in {} |-> 0]
    /\ tokens = [k \in {} |-> 0]
    /\ now = StartTime
    /\ last = Idle

Return ==
    /\ last # Idle
    /\ last' = Idle
    /\ UNCHANGED <<wallets, vaults, tokens, now>>

Tick(D) ==
    /\ last = Idle
    /\ now < StartTime + D.max_ticks
    /\ now' = now + 1
    /\ UNCHANGED <<wallets, vaults, tokens, last>>

\* The clock keeps running while the lock of some wallet is running.
TickWhileLocked ==
    /\ last = Idle
    /\ \E k \in DOMAIN wallets : is_locked(wallets[k], now)
    /\ now' = now + 1
    /\ UNCHANGED <<wallets, vaults, tokens, last>>

\* Faulty variant: initialize whose account constraint accepts an existing
\* account, so that the handler writes over it.
InitializeOverwrites(D) ==
    \E k \in D.keys, lock_seconds \in D.lock_seconds, sc \in D.init_configs,
       operator \in D.init_operators :
        LET r == initialize(k[1], k[2], lock_seconds, sc[1], sc[2], operator, now)
            exists == k \in DOMAIN wallets
        IN  /\ last = Idle
            /\ wallets' = IF r.err = "Ok" THEN (k :> r.val) @@ wallets ELSE wallets
            /\ vaults' = IF r.err = "Ok" /\ ~exists
                          THEN (k :> RentExemptMinimum) @@ vaults ELSE vaults
            /\ tokens' = IF r.err = "Ok" /\ ~exists THEN (k :> 0) @@ tokens ELSE tokens
            /\ last' = Record("initialize", k, k[1], lock_seconds, operator, FALSE, r.err,
                              r.val, << >>,
                              IF exists THEN wallets[k] ELSE ZeroedWallet,
                              IF exists THEN vaults[k] ELSE 0,
                              IF exists THEN tokens[k] ELSE 0)
            /\ UNCHANGED now

\* The init constraint rejects an existing account before the handler runs.
Initialize(D) ==
    \E k \in D.keys, lock_seconds \in D.lock_seconds, sc \in D.init_configs,
       operator \in D.init_operators :
        LET r == initialize(k[1], k[2], lock_seconds, sc[1], sc[2], operator, now)
            exists == k \in DOMAIN wallets
            err == IF exists THEN "AccountInUse" ELSE r.err
        IN  /\ last = Idle
            /\ wallets' = IF err = "Ok" THEN (k :> r.val) @@ wallets ELSE wallets
            /\ vaults' = IF err = "Ok" THEN (k :> RentExemptMinimum) @@ vaults ELSE vaults
            /\ tokens' = IF err = "Ok" THEN (k :> 0) @@ tokens ELSE tokens
            /\ last' = Record("initialize", k, k[1],
                              IF exists THEN 0 ELSE lock_seconds,
                              IF exists THEN Pubkey_default ELSE operator, FALSE, err,
                              IF exists THEN wallets[k] ELSE r.val, << >>,
                              IF exists THEN wallets[k] ELSE ZeroedWallet,
                              IF exists THEN vaults[k] ELSE 0,
                              IF exists THEN tokens[k] ELSE 0)
            /\ UNCHANGED now

Deposit(D) ==
    \E k \in DOMAIN wallets, depositor \in D.signers, amount \in D.deposits,
       funds \in D.deposits :
        /\ vaults[k] + amount <= MaxVault
        /\ Apply("deposit", k, depositor, amount, Pubkey_default, FALSE,
                 deposit(wallets[k], vaults[k], tokens[k], funds, amount))

\* Amounts at and around the largest withdrawal the reserve allows.
WithdrawAmounts(k) ==
    {0} \cup (IF vaults[k] >= MIN_RENT_RESERVE
              THEN {vaults[k] - MIN_RENT_RESERVE, vaults[k] - MIN_RENT_RESERVE + 1}
              ELSE {1})

Withdraw(D) ==
    \E k \in DOMAIN wallets, owner \in D.signers, destination \in D.signers :
      \E amount \in WithdrawAmounts(k) :
        Apply("withdraw", k, owner, amount, destination, FALSE,
              withdraw(wallets[k], vaults[k], tokens[k], owner, destination, amount, now))

WithdrawTokens(D) ==
    \E k \in DOMAIN wallets, owner \in D.signers, mint \in Mints, token_ok \in BOOLEAN :
        Apply("withdraw_tokens", k, owner, 0, mint, FALSE,
              withdraw_tokens(wallets[k], vaults[k], tokens[k], owner, mint, now, token_ok))

\* Amounts at and around the trade-size cap of the key's vault.
BuyAmounts(k, D) ==
    LET available == IF vaults[k] >= MIN_RENT_RESERVE
                     THEN vaults[k] - MIN_RENT_RESERVE ELSE 0
        cap == (available * wallets[k].config.trade_size_pct) \div 100
    IN  IF D.buy_at_cap THEN {cap, cap + 1} ELSE {0, cap + 1}

ExecuteBuy(D) ==
    \E k \in DOMAIN wallets, caller \in D.signers, target \in D.programs,
       expected \in D.expected, venue_ok \in BOOLEAN, overflow_checks \in BOOLEAN :
      \E amount \in BuyAmounts(k, D) :
        /\ wallets[k].total_trades < D.max_trades
        /\ Apply("execute_buy", k, caller, amount, target, TRUE,
                 execute_buy(wallets[k], vaults[k], tokens[k], caller, target, amount,
                             expected, now, venue_ok, overflow_checks))

ExecuteSell(D) ==
    \E k \in DOMAIN wallets, caller \in D.signers, target \in D.programs,
       expected \in D.expected, venue_ok \in BOOLEAN, overflow_checks \in BOOLEAN :
      \E amount \in {tokens[k], tokens[k] + 1} :
        /\ wallets[k].total_trades < D.max_trades
        /\ Apply("execute_sell", k, caller, amount, target, FALSE,
                 execute_sell(wallets[k], vaults[k], tokens[k], caller, target, amount,
                              expected, now, venue_ok, overflow_checks))

\* The clock advances up to its largest timestamp.
TickLate ==
    /\ last = Idle
    /\ now < I64_MAX
    /\ now' = now + 1
    /\ UNCHANGED <<wallets, vaults, tokens, last>>

ExecuteSwap(D) ==
    \E k \in DOMAIN wallets, caller \in D.signers, target \in D.programs, is_buy \in BOOLEAN,
       expected \in D.expected, venue_ok \in BOOLEAN, overflow_checks \in BOOLEAN :
      \E amount \in (IF is_buy THEN BuyAmounts(k, D) ELSE {tokens[k], tokens[k] + 1}) :
        /\ wallets[k].total_trades < D.max_trades
        /\ Apply("execute_swap", k, caller, amount, target, is_buy,
                 execute_swap(wallets[k], vaults[k], tokens[k], caller, target, amount,
                              expected, is_buy, now, venue_ok, overflow_checks))

ClaimFees(D) ==
    \E k \in DOMAIN wallets, caller \in D.signers, fee \in D.fees,
       venue_ok \in BOOLEAN :
        /\ wallets[k].total_fees_claimed < D.max_fees
        /\ vaults[k] <= D.max_vault - fee
        /\ Apply("claim_fees", k, caller, fee, Pubkey_default, FALSE,
                 claim_fees(wallets[k], vaults[k], tokens[k], caller, fee, venue_ok))

CreateToken(D) ==
    \E k \in DOMAIN wallets, owner \in D.signers, venue_ok \in BOOLEAN :
        Apply("create_token", k, owner, 0, Pubkey_default, FALSE,
              create_token(wallets[k], vaults[k], tokens[k], owner, TokenName,
                           TokenSymbol, TokenUri, venue_ok))

SetTokenMint(D) ==
    \E k \in DOMAIN wallets, owner \in D.signers, mint \in D.mints :
        Apply("set_token_mint", k, owner, 0, mint, FALSE,
              set_token_mint(wallets[k], vaults[k], tokens[k], owner, mint))

UpdateStrategy(D) ==
    \E k \in DOMAIN wallets, owner \in D.signers, sc \in D.configs :
        Apply("update_strategy", k, owner, 0, Pubkey_default, FALSE,
              update_strategy(wallets[k], vaults[k], tokens[k], owner, sc[1], sc[2]))

SetOperator(D) ==
    \E k \in DOMAIN wallets, owner \in D.signers, new_operator \in D.operators :
        Apply("set_operator", k, owner, 0, new_operator, FALSE,
              set_operator(wallets[k], vaults[k], tokens[k], owner, new_operator))

Pause(D) ==
    \E k \in DOMAIN wallets, owner \in D.signers :
        Apply("pause", k, owner, 0, Pubkey_default, FALSE,
              pause(wallets[k], vaults[k], tokens[k], owner))

Resume(D) ==
    \E k \in DOMAIN wallets, owner \in D.signers :
        Apply("resume", k, owner, 0, Pubkey_default, FALSE,
              resume(wallets[k], vaults[k], tokens[k], owner))

\* One-second extensions are explored while the lock lies within the clock's range.
Additional(k, D) ==
    D.additional \cup (IF wallets[k].lock_until <= StartTime + D.max_ticks
                       THEN D.short_additional ELSE {})

ExtendLock(D) ==
    \E k \in DOMAIN wallets, owner \in D.signers :
      \E additional \in Additional(k, D) :
        /\ wallets[k].lock_until <= D.max_lock
        /\ Apply("extend_lock", k, owner, additional, Pubkey_default, FALSE,
              extend_lock(wallets[k], vaults[k], tokens[k], owner, additional, now))

(***************************************************************************)
(* Spec: all fourteen instructions on one wallet, with few values of each  *)
(* argument.                                                               *)
(***************************************************************************)
MainInputs ==
    [keys |-> {<<"alice", 0>>},
     signers |-> {"alice", "bob", "carol"},
     lock_seconds |-> {0 - 1, 0, 1},
     init_configs |-> {<<"VolumeBot", Config(25, 1, 2, 1000)>>,
                       <<"VolumeBot", Config(0, 1, 2, 1000)>>},
     configs |-> {<<"GridTrading", Config(50, 0, 0, 10)>>,
                  <<"GridTrading", Config(25, 3, 2, 1000)>>},
     init_operators |-> {Pubkey_default, "bob"},
     operators |-> {Pubkey_default, "bob", "carol"},
     additional |-> {0, MAX_LOCK_SECONDS},
     short_additional |-> {},
     deposits |-> {0, DepositUnit},
     expected |-> {0},
     fees |-> {0},
     mints |-> {"MintA"},
     programs |-> Programs,
     buy_at_cap |-> FALSE,
     max_ticks |-> MaxTicks,
     max_trades |-> 1,
     max_fees |-> 1,
     max_lock |-> StartTime + MaxTicks,
     max_vault |-> U64_MAX]

Next ==
    \/ Return
    \/ Tick(MainInputs)
    \/ Initialize(MainInputs)
    \/ Deposit(MainInputs)
    \/ Withdraw(MainInputs)
    \/ WithdrawTokens(MainInputs)
    \/ ExecuteBuy(MainInputs)
    \/ ExecuteSell(MainInputs)
    \/ ExecuteSwap(MainInputs)
    \/ ClaimFees(MainInputs)
    \/ CreateToken(MainInputs)
    \/ SetTokenMint(MainInputs)
    \/ UpdateStrategy(MainInputs)
    \/ SetOperator(MainInputs)
    \/ Pause(MainInputs)
    \/ Resume(MainInputs)
    \/ ExtendLock(MainInputs)

Spec == Init /\ [][Next]_vars

(***************************************************************************)
(* SpecLock: the instructions that read or write the lock, over a longer   *)
(* clock and every boundary of the lock durations.                         *)
(***************************************************************************)
LockTicks == 3

LockInputs ==
    [keys |-> {<<"alice", 0>>},
     signers |-> {"alice", "bob"},
     lock_seconds |-> {0 - 1, 0, 2, MAX_LOCK_SECONDS, MAX_LOCK_SECONDS + 1},
     init_configs |-> {<<"VolumeBot", Config(50, 1, 2, 1000)>>},
     configs |-> {},
     init_operators |-> {"bob"},
     operators |-> {},
     additional |-> {0, MAX_LOCK_SECONDS, MAX_LOCK_SECONDS + 1},
     short_additional |-> {1},
     deposits |-> {DepositUnit},
     expected |-> {ExpectedUnit},
     fees |-> {0},
     mints |-> {"MintA"},
     programs |-> Programs,
     buy_at_cap |-> TRUE,
     max_ticks |-> LockTicks,
     max_trades |-> 1,
     max_fees |-> 0,
     max_lock |-> StartTime + LockTicks + MAX_TOTAL_LOCK_SECONDS,
     max_vault |-> U64_MAX]

NextLock ==
    \/ Return
    \/ Tick(LockInputs)
    \/ Initialize(LockInputs)
    \/ Deposit(LockInputs)
    \/ Withdraw(LockInputs)
    \/ WithdrawTokens(LockInputs)
    \/ ExecuteBuy(LockInputs)
    \/ SetTokenMint(LockInputs)
    \/ ExtendLock(LockInputs)

SpecLock == Init /\ [][NextLock]_vars

(***************************************************************************)
(* SpecTrade: the trading instructions with their controls (pause, resume, *)
(* update_strategy), two trades per wallet, amounts at the cap, a venue    *)
(* that pays tokens, and a clock that covers the cooldown.                 *)
(***************************************************************************)
TradeTicks == 3

TradeInputs ==
    [keys |-> {<<"alice", 0>>},
     signers |-> {"alice", "bob", "carol"},
     lock_seconds |-> {0},
     init_configs |-> {<<"VolumeBot", Config(25, 2, 3, 1000)>>},
     configs |-> {<<"PriceReactive", Config(50, 0, 0, 10)>>},
     init_operators |-> {"bob"},
     operators |-> {},
     additional |-> {},
     short_additional |-> {},
     deposits |-> {DepositUnit},
     expected |-> {ExpectedUnit},
     fees |-> {0, FeeUnit},
     mints |-> {},
     programs |-> Programs,
     buy_at_cap |-> TRUE,
     max_ticks |-> TradeTicks,
     max_trades |-> MaxTrades,
     max_fees |-> FeeUnit,
     max_lock |-> 0,
     max_vault |-> U64_MAX]

NextTrade ==
    \/ Return
    \/ Tick(TradeInputs)
    \/ Initialize(TradeInputs)
    \/ Deposit(TradeInputs)
    \/ ExecuteBuy(TradeInputs)
    \/ ExecuteSell(TradeInputs)
    \/ ExecuteSwap(TradeInputs)
    \/ UpdateStrategy(TradeInputs)
    \/ Pause(TradeInputs)
    \/ Resume(TradeInputs)

SpecTrade == Init /\ [][NextTrade]_vars

(***************************************************************************)
(* SpecPause: trades and fee claims around pause and resume, at one        *)
(* instant, on a wallet without cooldown and a venue that pays fees.       *)
(***************************************************************************)
PauseInputs ==
    [keys |-> {<<"alice", 0>>},
     signers |-> {"alice", "bob", "carol"},
     lock_seconds |-> {0},
     init_configs |-> {<<"VolumeBot", Config(25, 0, 3, 1000)>>},
     configs |-> {},
     init_operators |-> {"bob"},
     operators |-> {},
     additional |-> {},
     short_additional |-> {},
     deposits |-> {DepositUnit},
     expected |-> {ExpectedUnit},
     fees |-> {0, FeeUnit},
     mints |-> {},
     programs |-> Programs,
     buy_at_cap |-> TRUE,
     max_ticks |-> 0,
     max_trades |-> MaxTrades,
     max_fees |-> FeeUnit,
     max_lock |-> 0,
     max_vault |-> U64_MAX]

NextPause ==
    \/ Return
    \/ Initialize(PauseInputs)
    \/ Deposit(PauseInputs)
    \/ ExecuteBuy(PauseInputs)
    \/ ExecuteSell(PauseInputs)
    \/ ExecuteSwap(PauseInputs)
    \/ ClaimFees(PauseInputs)
    \/ CreateToken(PauseInputs)
    \/ Pause(PauseInputs)
    \/ Resume(PauseInputs)

SpecPause == Init /\ [][NextPause]_vars

(***************************************************************************)
(* SpecCustody: short locks set by initialize and extend_lock, with the    *)
(* instructions that change what the claim calls paused, operator,         *)
(* strategy and trade history.  Every instruction returns, and time keeps  *)
(* advancing: the clock is not stopped while a lock is running.            *)
(***************************************************************************)
CustodyInputs ==
    [keys |-> {<<"alice", 0>>},
     signers |-> {"alice"},
     lock_seconds |-> {0, 2},
     init_configs |-> {<<"VolumeBot", Config(25, 0, 3, 1000)>>},
     configs |-> {<<"GridTrading", Config(50, 1, 1, 10)>>},
     init_operators |-> {"bob"},
     operators |-> {"carol"},
     additional |-> {},
     short_additional |-> {1},
     deposits |-> {DepositUnit},
     expected |-> {ExpectedUnit},
     fees |-> {0},
     mints |-> {},
     programs |-> {PUMP_FUN_PROGRAM},
     buy_at_cap |-> TRUE,
     max_ticks |-> MaxTicks,
     max_trades |-> 1,
     max_fees |-> 0,
     max_lock |-> StartTime + MaxTicks,
     max_vault |-> U64_MAX]

NextCustody ==
    \/ Return
    \/ Tick(CustodyInputs)
    \/ TickWhileLocked
    \/ Initialize(CustodyInputs)
    \/ Deposit(CustodyInputs)
    \/ Withdraw(CustodyInputs)
    \/ ExecuteBuy(CustodyInputs)
    \/ UpdateStrategy(CustodyInputs)
    \/ SetOperator(CustodyInputs)
    \/ Pause(CustodyInputs)
    \/ ExtendLock(CustodyInputs)

SpecCustody ==
    /\ Init
    /\ [][NextCustody]_vars
    /\ WF_vars(Return)
    /\ SF_vars(Tick(CustodyInputs) \/ TickWhileLocked)

(***************************************************************************)
(* SpecConfig: all fourteen instructions at one instant, with every        *)
(* boundary of the configuration limits offered to initialize and          *)
(* update_strategy.                                                        *)
(***************************************************************************)
BoundaryConfigs ==
    {<<"GridTrading", Config(1, 0, 0, 10)>>,
     <<"TrendFollower", Config(50, 2, 2, 5000)>>,
     <<"VolumeBot", Config(0, 1, 2, 1000)>>,
     <<"VolumeBot", Config(51, 1, 2, 1000)>>,
     <<"VolumeBot", Config(25, 1, 2, 9)>>,
     <<"VolumeBot", Config(25, 1, 2, 5001)>>,
     <<"VolumeBot", Config(25, 3, 2, 1000)>>,
     <<"VolumeBot", Config(0, 3, 2, 9)>>}

ConfigInputs ==
    [keys |-> {<<"alice", 0>>},
     signers |-> {"alice", "bob"},
     lock_seconds |-> {0},
     init_configs |-> BoundaryConfigs,
     configs |-> BoundaryConfigs,
     init_operators |-> {"bob"},
     operators |-> {"carol"},
     additional |-> {MAX_LOCK_SECONDS},
     short_additional |-> {},
     deposits |-> {DepositUnit},
     expected |-> {ExpectedUnit},
     fees |-> {FeeUnit},
     mints |-> {"MintA"},
     programs |-> Programs,
     buy_at_cap |-> TRUE,
     max_ticks |-> 0,
     max_trades |-> 1,
     max_fees |-> FeeUnit,
     max_lock |-> 0,
     max_vault |-> U64_MAX]

NextConfig ==
    \/ Return
    \/ Initialize(ConfigInputs)
    \/ Deposit(ConfigInputs)
    \/ Withdraw(ConfigInputs)
    \/ WithdrawTokens(ConfigInputs)
    \/ ExecuteBuy(ConfigInputs)
    \/ ExecuteSell(ConfigInputs)
    \/ ExecuteSwap(ConfigInputs)
    \/ ClaimFees(ConfigInputs)
    \/ CreateToken(ConfigInputs)
    \/ SetTokenMint(ConfigInputs)
    \/ UpdateStrategy(ConfigInputs)
    \/ SetOperator(ConfigInputs)
    \/ Pause(ConfigInputs)
    \/ Resume(ConfigInputs)
    \/ ExtendLock(ConfigInputs)

SpecConfig == Init /\ [][NextConfig]_vars

(***************************************************************************)
(* SpecMint: all fourteen instructions at one instant, with two mints      *)
(* offered to set_token_mint and a venue that accepts or refuses the       *)
(* create call.                                                            *)
(***************************************************************************)
MintInputs ==
    [keys |-> {<<"alice", 0>>},
     signers |-> {"alice", "bob"},
     lock_seconds |-> {0},
     init_configs |-> {<<"VolumeBot", Config(25, 0, 0, 1000)>>},
     configs |-> {<<"GridTrading", Config(50, 0, 0, 10)>>},
     init_operators |-> {"bob"},
     operators |-> {"carol"},
     additional |-> {MAX_LOCK_SECONDS},
     short_additional |-> {},
     deposits |-> {DepositUnit},
     expected |-> {ExpectedUnit},
     fees |-> {FeeUnit},
     mints |-> Mints,
     programs |-> Programs,
     buy_at_cap |-> TRUE,
     max_ticks |-> 0,
     max_trades |-> 1,
     max_fees |-> FeeUnit,
     max_lock |-> 0,
     max_vault |-> U64_MAX]

NextMint ==
    \/ Return
    \/ Initialize(MintInputs)
    \/ Deposit(MintInputs)
    \/ Withdraw(MintInputs)
    \/ WithdrawTokens(MintInputs)
    \/ ExecuteBuy(MintInputs)
    \/ ExecuteSell(MintInputs)
    \/ ExecuteSwap(MintInputs)
    \/ ClaimFees(MintInputs)
    \/ CreateToken(MintInputs)
    \/ SetTokenMint(MintInputs)
    \/ UpdateStrategy(MintInputs)
    \/ SetOperator(MintInputs)
    \/ Pause(MintInputs)
    \/ Resume(MintInputs)
    \/ ExtendLock(MintInputs)

SpecMint == Init /\ [][NextMint]_vars

(***************************************************************************)
(* SpecCounters: all fourteen instructions on a wallet whose three         *)
(* counters are within CounterSlack of the 64-bit maximum, the state of a  *)
(* wallet after a long history of trades and fee claims.  The vault holds  *)
(* CounterFunds above the reserve.                                         *)
(***************************************************************************)
CounterSlack == 2
CounterFunds == 4
CounterKey == <<"alice", 0>>
CounterStarts == (U64_MAX - CounterSlack) .. U64_MAX

CounterInputs ==
    [keys |-> {CounterKey},
     signers |-> {"alice"},
     lock_seconds |-> {0},
     init_configs |-> {<<"VolumeBot", Config(50, 0, 0, 5000)>>},
     configs |-> {<<"GridTrading", Config(50, 0, 0, 10)>>},
     init_operators |-> {"bob"},
     operators |-> {"carol"},
     additional |-> {MAX_LOCK_SECONDS},
     short_additional |-> {},
     deposits |-> {0},
     expected |-> {1},
     fees |-> {0, 1, CounterSlack + 1},
     mints |-> {"MintA"},
     programs |-> Programs,
     buy_at_cap |-> TRUE,
     max_ticks |-> 0,
     max_trades |-> U64_MAX + 1,
     max_fees |-> U64_MAX + 1,
     max_lock |-> 0,
     max_vault |-> MIN_RENT_RESERVE + CounterFunds + CounterSlack + 1]

InitCounters ==
    \E volume \in CounterStarts, trades \in CounterStarts, fees \in CounterStarts :
      /\ wallets = (CounterKey :>
                      [initialize("alice", 0, 0, "VolumeBot", Config(50, 0, 0, 5000),
                                  "bob", StartTime).val
                         EXCEPT !.is_creator = TRUE,
                                !.total_volume = volume,
                                !.total_trades = trades,
                                !.total_fees_claimed = fees,
                                !.last_trade = StartTime])
      /\ vaults = (CounterKey :> MIN_RENT_RESERVE + CounterFunds)
      /\ tokens = (CounterKey :> 0)
      /\ now = StartTime
      /\ last = Idle

NextCounters ==
    \/ Return
    \/ Initialize(CounterInputs)
    \/ Deposit(CounterInputs)
    \/ Withdraw(CounterInputs)
    \/ WithdrawTokens(CounterInputs)
    \/ ExecuteBuy(CounterInputs)
    \/ ExecuteSell(CounterInputs)
    \/ ExecuteSwap(CounterInputs)
    \/ ClaimFees(CounterInputs)
    \/ CreateToken(CounterInputs)
    \/ SetTokenMint(CounterInputs)
    \/ UpdateStrategy(CounterInputs)
    \/ SetOperator(CounterInputs)
    \/ Pause(CounterInputs)
    \/ Resume(CounterInputs)
    \/ ExtendLock(CounterInputs)

SpecCounters == InitCounters /\ [][NextCounters]_vars

(***************************************************************************)
(* SpecInit: initialize alone, for two accounts, with lock durations on    *)
(* both sides of the range, a null operator and every boundary of the      *)
(* configuration limits, at two instants.                                  *)
(***************************************************************************)
InitInputs ==
    [keys |-> {<<"alice", 0>>, <<"bob", 7>>},
     signers |-> {"alice", "bob"},
     lock_seconds |-> {0 - 1, 0, 1, MAX_LOCK_SECONDS, MAX_LOCK_SECONDS + 1},
     init_configs |-> BoundaryConfigs,
     configs |-> {},
     init_operators |-> {Pubkey_default, "carol"},
     operators |-> {},
     additional |-> {},
     short_additional |-> {},
     deposits |-> {},
     expected |-> {},
     fees |-> {},
     mints |-> {},
     programs |-> {},
     buy_at_cap |-> FALSE,
     max_ticks |-> MaxTicks,
     max_trades |-> 0,
     max_fees |-> 0,
     max_lock |-> 0,
     max_vault |-> U64_MAX]

NextInit ==
    \/ Return
    \/ Tick(InitInputs)
    \/ Initialize(InitInputs)

SpecInit == Init /\ [][NextInit]_vars

(***************************************************************************)
(* SpecReinit: initialize for three accounts, two of one owner and one of  *)
(* another, each locked for one second from its creation, with the        *)
(* instructions that change the operator and the counters of a wallet.     *)
(***************************************************************************)
ReinitInputs ==
    [keys |-> {<<"alice", 0>>, <<"alice", 1>>, <<"bob", 0>>},
     signers |-> {"alice", "bob"},
     lock_seconds |-> {1},
     init_configs |-> {<<"VolumeBot", Config(25, 0, 0, 1000)>>},
     configs |-> {},
     init_operators |-> {"dave"},
     operators |-> {"carol"},
     additional |-> {},
     short_additional |-> {},
     deposits |-> {},
     expected |-> {0},
     fees |-> {},
     mints |-> {},
     programs |-> {PUMP_FUN_PROGRAM},
     buy_at_cap |-> TRUE,
     max_ticks |-> MaxTicks,
     max_trades |-> 1,
     max_fees |-> 0,
     max_lock |-> 0,
     max_vault |-> U64_MAX]

NextReinit ==
    \/ Return
    \/ Tick(ReinitInputs)
    \/ Initialize(ReinitInputs)
    \/ ExecuteBuy(ReinitInputs)
    \/ SetOperator(ReinitInputs)

SpecReinit == Init /\ [][NextReinit]_vars

(***************************************************************************)
(* SpecVenue: the three trading instructions given each venue and a third  *)
(* program as target, with deposits, pause and the clock.                  *)
(***************************************************************************)
VenueInputs ==
    [keys |-> {<<"alice", 0>>},
     signers |-> {"alice", "bob", "carol"},
     lock_seconds |-> {0},
     init_configs |-> {<<"VolumeBot", Config(25, 1, 1, 1000)>>},
     configs |-> {},
     init_operators |-> {"bob"},
     operators |-> {},
     additional |-> {},
     short_additional |-> {},
     deposits |-> {DepositUnit},
     expected |-> {ExpectedUnit},
     fees |-> {},
     mints |-> {},
     programs |-> Programs \cup {Pubkey_default},
     buy_at_cap |-> TRUE,
     max_ticks |-> MaxTicks,
     max_trades |-> MaxTrades,
     max_fees |-> 0,
     max_lock |-> 0,
     max_vault |-> U64_MAX]

NextVenue ==
    \/ Return
    \/ Tick(VenueInputs)
    \/ Initialize(VenueInputs)
    \/ Deposit(VenueInputs)
    \/ ExecuteBuy(VenueInputs)
    \/ ExecuteSell(VenueInputs)
    \/ ExecuteSwap(VenueInputs)
    \/ Pause(VenueInputs)
    \/ Resume(VenueInputs)

SpecVenue == Init /\ [][NextVenue]_vars

(***************************************************************************)
(* SpecFees: claim_fees with a venue call that adds to the vault, leaves   *)
(* it as it was or takes from it, on wallets that have or have not created *)
(* a token, with a buy, pause and the clock.                               *)
(***************************************************************************)
FeeInputs ==
    [keys |-> {<<"alice", 0>>},
     signers |-> {"alice", "bob", "carol"},
     lock_seconds |-> {0},
     init_configs |-> {<<"VolumeBot", Config(25, 0, 3, 1000)>>},
     configs |-> {},
     init_operators |-> {"bob"},
     operators |-> {},
     additional |-> {},
     short_additional |-> {},
     deposits |-> {DepositUnit},
     expected |-> {ExpectedUnit},
     fees |-> {0 - DepositUnit, 0, FeeUnit},
     mints |-> {},
     programs |-> {PUMP_FUN_PROGRAM},
     buy_at_cap |-> TRUE,
     max_ticks |-> MaxTicks,
     max_trades |-> 1,
     max_fees |-> FeeUnit + 1,
     max_lock |-> 0,
     max_vault |-> U64_MAX]

NextFees ==
    \/ Return
    \/ Tick(FeeInputs)
    \/ Initialize(FeeInputs)
    \/ Deposit(FeeInputs)
    \/ ExecuteBuy(FeeInputs)
    \/ ClaimFees(FeeInputs)
    \/ CreateToken(FeeInputs)
    \/ Pause(FeeInputs)
    \/ Resume(FeeInputs)

SpecFees == Init /\ [][NextFees]_vars

(***************************************************************************)
(* SpecLate: all fourteen instructions at an instant LateSlack seconds     *)
(* before the largest timestamp of the clock, where the additions to the   *)
(* timestamp in initialize and extend_lock overflow.                       *)
(***************************************************************************)
LateSlack == 2

LateInputs ==
    [keys |-> {<<"alice", 0>>},
     signers |-> {"alice", "bob"},
     lock_seconds |-> {0 - 1, 1, LateSlack + 1},
     init_configs |-> {<<"VolumeBot", Config(25, 0, 0, 1000)>>,
                       <<"VolumeBot", Config(51, 0, 0, 1000)>>},
     configs |-> {<<"GridTrading", Config(50, 0, 0, 10)>>,
                  <<"GridTrading", Config(50, 0, 0, 9)>>},
     init_operators |-> {"bob"},
     operators |-> {Pubkey_default, "carol"},
     additional |-> {0, 1},
     short_additional |-> {},
     deposits |-> {0, DepositUnit},
     expected |-> {ExpectedUnit},
     fees |-> {FeeUnit},
     mints |-> {"MintA"},
     programs |-> Programs,
     buy_at_cap |-> FALSE,
     max_ticks |-> 0,
     max_trades |-> 1,
     max_fees |-> 1,
     max_lock |-> I64_MAX,
     max_vault |-> U64_MAX]

InitLate ==
    /\ wallets = [k \in {} |-> ZeroedWallet]
    /\ vaults = [k \in {} |-> 0]
    /\ tokens = [k \in {} |-> 0]
    /\ now = I64_MAX - LateSlack
    /\ last = Idle

NextLate ==
    \/ Return
    \/ Initialize(LateInputs)
    \/ Deposit(LateInputs)
    \/ Withdraw(LateInputs)
    \/ WithdrawTokens(LateInputs)
    \/ ExecuteBuy(LateInputs)
    \/ ExecuteSell(LateInputs)
    \/ ExecuteSwap(LateInputs)
    \/ ClaimFees(LateInputs)
    \/ CreateToken(LateInputs)
    \/ SetTokenMint(LateInputs)
    \/ UpdateStrategy(LateInputs)
    \/ SetOperator(LateInputs)
    \/ Pause(LateInputs)
    \/ Resume(LateInputs)
    \/ ExtendLock(LateInputs)

SpecLate == InitLate /\ [][NextLate]_vars

(***************************************************************************)
(* SpecWidth: trades in the last LateSlack seconds of the clock, with      *)
(* cooldowns that do and do not carry last_trade past the largest          *)
(* timestamp, on a build with and on a build without overflow checks.      *)
(***************************************************************************)
WidthInputs ==
    [keys |-> {<<"alice", 0>>},
     signers |-> {"alice", "bob", "carol"},
     lock_seconds |-> {0},
     init_configs |-> {<<"VolumeBot", Config(25, 1, 1, 1000)>>,
                       <<"VolumeBot", Config(25, LateSlack + 1, LateSlack + 1, 1000)>>},
     configs |-> {},
     init_operators |-> {"bob"},
     operators |-> {},
     additional |-> {},
     short_additional |-> {},
     deposits |-> {},
     expected |-> {0, ExpectedUnit},
     fees |-> {},
     mints |-> {},
     programs |-> Programs,
     buy_at_cap |-> FALSE,
     max_ticks |-> 0,
     max_trades |-> MaxTrades,
     max_fees |-> 0,
     max_lock |-> 0,
     max_vault |-> U64_MAX]

NextWidth ==
    \/ Return
    \/ TickLate
    \/ Initialize(WidthInputs)
    \/ ExecuteBuy(WidthInputs)
    \/ ExecuteSell(WidthInputs)
    \/ ExecuteSwap(WidthInputs)
    \/ Pause(WidthInputs)
    \/ Resume(WidthInputs)

SpecWidth == InitLate /\ [][NextWidth]_vars

(***************************************************************************)
(* SpecIdentity: all fourteen instructions on a wallet created with a      *)
(* nonce other than 0, by the owner, the operator and a third signer,      *)
(* while the clock advances.                                               *)
(***************************************************************************)
IdentityInputs == [MainInputs EXCEPT !.keys = {<<"alice", 1>>}]

NextIdentity ==
    \/ Return
    \/ Tick(IdentityInputs)
    \/ Initialize(IdentityInputs)
    \/ Deposit(IdentityInputs)
    \/ Withdraw(IdentityInputs)
    \/ WithdrawTokens(IdentityInputs)
    \/ ExecuteBuy(IdentityInputs)
    \/ ExecuteSell(IdentityInputs)
    \/ ExecuteSwap(IdentityInputs)
    \/ ClaimFees(IdentityInputs)
    \/ CreateToken(IdentityInputs)
    \/ SetTokenMint(IdentityInputs)
    \/ UpdateStrategy(IdentityInputs)
    \/ SetOperator(IdentityInputs)
    \/ Pause(IdentityInputs)
    \/ Resume(IdentityInputs)
    \/ ExtendLock(IdentityInputs)

SpecIdentity == Init /\ [][NextIdentity]_vars

(***************************************************************************)
(* SpecPayload: trades on both venues with several expected outputs, on a  *)
(* wallet without cooldown whose slippage update_strategy changes.         *)
(***************************************************************************)
PayloadInputs ==
    [keys |-> {<<"alice", 0>>},
     signers |-> {"alice", "bob"},
     lock_seconds |-> {0},
     init_configs |-> {<<"VolumeBot", Config(25, 0, 0, 1000)>>},
     configs |-> {<<"SpreadMM", Config(25, 0, 0, 10)>>},
     init_operators |-> {"bob"},
     operators |-> {},
     additional |-> {},
     short_additional |-> {},
     deposits |-> {DepositUnit},
     expected |-> {0, ExpectedUnit, ExpectedUnit + 1},
     fees |-> {},
     mints |-> {},
     programs |-> Programs,
     buy_at_cap |-> TRUE,
     max_ticks |-> 0,
     max_trades |-> MaxTrades,
     max_fees |-> 0,
     max_lock |-> 0,
     max_vault |-> U64_MAX]

NextPayload ==
    \/ Return
    \/ Initialize(PayloadInputs)
    \/ Deposit(PayloadInputs)
    \/ ExecuteBuy(PayloadInputs)
    \/ ExecuteSell(PayloadInputs)
    \/ ExecuteSwap(PayloadInputs)
    \/ UpdateStrategy(PayloadInputs)

SpecPayload == Init /\ [][NextPayload]_vars

(***************************************************************************)
(* SpecBalance: buys on both venues for amounts at and above the cap and   *)
(* at and above the balance the vault can spend, on wallets whose trade    *)
(* size is 1, 25 or 50 percent.                                            *)
(***************************************************************************)
BalanceInputs ==
    [keys |-> {<<"alice", 0>>},
     signers |-> {"alice", "bob"},
     lock_seconds |-> {0},
     init_configs |-> {<<"VolumeBot", Config(25, 0, 0, 1000)>>,
                       <<"VolumeBot", Config(51, 0, 0, 1000)>>},
     configs |-> {<<"GridTrading", Config(1, 0, 0, 1000)>>,
                  <<"GridTrading", Config(50, 0, 0, 1000)>>,
                  <<"GridTrading", Config(100, 0, 0, 1000)>>},
     init_operators |-> {"bob"},
     operators |-> {},
     additional |-> {},
     short_additional |-> {},
     deposits |-> {DepositUnit},
     expected |-> {ExpectedUnit},
     fees |-> {},
     mints |-> {},
     programs |-> Programs,
     buy_at_cap |-> TRUE,
     max_ticks |-> 0,
     max_trades |-> MaxTrades,
     max_fees |-> 0,
     max_lock |-> 0,
     max_vault |-> U64_MAX]

\* Amounts on both sides of the cap and of the spendable balance.
AmountsAroundBalance(k, D) ==
    LET available == IF vaults[k] >= MIN_RENT_RESERVE
                     THEN vaults[k] - MIN_RENT_RESERVE ELSE 0
    IN  BuyAmounts(k, D) \cup {available, available + 1}

ExecuteBuyAroundBalance(D) ==
    \E k \in DOMAIN wallets, caller \in D.signers, target \in D.programs,
       expected \in D.expected, venue_ok \in BOOLEAN, overflow_checks \in BOOLEAN :
      \E amount \in AmountsAroundBalance(k, D) :
        /\ wallets[k].total_trades < D.max_trades
        /\ Apply("execute_buy", k, caller, amount, target, TRUE,
                 execute_buy(wallets[k], vaults[k], tokens[k], caller, target, amount,
                             expected, now, venue_ok, overflow_checks))

ExecuteSwapAroundBalance(D) ==
    \E k \in DOMAIN wallets, caller \in D.signers, target \in D.programs,
       expected \in D.expected, venue_ok \in BOOLEAN, overflow_checks \in BOOLEAN :
      \E amount \in AmountsAroundBalance(k, D) :
        /\ wallets[k].total_trades < D.max_trades
        /\ Apply("execute_swap", k, caller, amount, target, TRUE,
                 execute_swap(wallets[k], vaults[k], tokens[k], caller, target, amount,
                              expected, TRUE, now, venue_ok, overflow_checks))

NextBalance ==
    \/ Return
    \/ Initialize(BalanceInputs)
    \/ Deposit(BalanceInputs)
    \/ ExecuteBuyAroundBalance(BalanceInputs)
    \/ ExecuteSwapAroundBalance(BalanceInputs)
    \/ UpdateStrategy(BalanceInputs)

SpecBalance == Init /\ [][NextBalance]_vars

(***************************************************************************)
(* SpecPrimitives: the configuration validator and the two policy          *)
(* primitives applied to arguments drawn from grids around their limits    *)
(* and around the width of u64.  A step records the primitive in last.op,  *)
(* its receiver in last.mem, its argument in last.amount and the error     *)
(* kind of its result in last.err.                                         *)
(***************************************************************************)
PctGrid == {0, 1, 25, 50, 51, 60, 255}
SlippageGrid == {0, 5, 9, 10, 500, 1000, 5000, 5001, 9999, 10000, 10001, 65535}
DelayGrid == {<<0, 0>>, <<10, 60>>, <<60, 60>>, <<100, 60>>, <<65535, 0>>}

BalanceGrid ==
    {0, 1, 3, 99, 100, 101, 1000, MaxVault,
     U64_MAX \div 50, (U64_MAX \div 50) + 1, U64_MAX \div 25, (U64_MAX \div 25) + 1,
     U64_MAX \div 2, (U64_MAX \div 2) + 1, U64_MAX - 1, U64_MAX}

ExpectedGrid ==
    {0, 1, 99, 100, 101, 10000, 10001,
     U64_MAX \div 10000, (U64_MAX \div 10000) + 1,
     U64_MAX \div 9990, (U64_MAX \div 9990) + 1,
     U64_MAX \div 5000, (U64_MAX \div 5000) + 1, U64_MAX}

\* MmWallet { config, ..Default::default() }, the form of the unit tests.
WalletWithConfig(config) == [MmWallet_default EXCEPT !.config = config]

Applied(op, w, amount, err) ==
    /\ last = Idle
    /\ last' = Record(op, NoKey, Pubkey_default, amount, Pubkey_default, FALSE, err,
                      w, << >>, w, 0, 0)
    /\ UNCHANGED <<wallets, vaults, tokens, now>>

ValidateConfig ==
    \E pct \in PctGrid, slippage \in SlippageGrid, delays \in DelayGrid :
        LET config == Config(pct, delays[1], delays[2], slippage)
        IN  Applied("validate_config", WalletWithConfig(config), 0, validate_config(config))

MaxTradeAmount ==
    \E pct \in PctGrid, available_balance \in BalanceGrid :
        LET w == WalletWithConfig(Config(pct, 0, 0, 0))
        IN  Applied("max_trade_amount", w, available_balance,
                    max_trade_amount(w, available_balance).err)

CalculateMinOutput ==
    \E slippage \in SlippageGrid, expected_output \in ExpectedGrid :
        LET w == WalletWithConfig(Config(0, 0, 0, slippage))
        IN  Applied("calculate_min_output", w, expected_output,
                    calculate_min_output(w, expected_output).err)

NextPrimitives ==
    \/ Return
    \/ ValidateConfig
    \/ MaxTradeAmount
    \/ CalculateMinOutput

SpecPrimitives == Init /\ [][NextPrimitives]_vars

(***************************************************************************)
(* Properties.  An instruction step is a step that leaves last # Idle; in  *)
(* such a step the unprimed variables are the accounts the instruction was *)
(* given and the primed ones the accounts after the ledger committed or    *)
(* rolled back.                                                            *)
(***************************************************************************)
OwnerOps ==
    {"withdraw", "withdraw_tokens", "create_token", "set_token_mint", "update_strategy",
     "set_operator", "pause", "resume", "extend_lock"}
TradeOps == {"execute_buy", "execute_sell", "execute_swap"}
OperatorOps == TradeOps \cup {"claim_fees"}

\* The step executes instruction op on an existing wallet.
Executes(ops) == last = Idle /\ last'.op \in ops /\ last'.key \in DOMAIN wallets

\* The step leaves the accounts of every wallet as they were.
AccountsUnchanged == wallets' = wallets /\ vaults' = vaults /\ tokens' = tokens

\* C1: the nine owner-only instructions succeed only when the caller is the
\* wallet's owner; for any other caller, the operator included, they fail with
\* Unauthorized and the wallet record and the vault are unchanged.
C1_OwnerOnly ==
    [][Executes(OwnerOps) =>
          LET w == wallets[last'.key] IN
          /\ last'.err = "Ok" => last'.caller = w.owner
          /\ last'.caller # w.owner =>
                /\ last'.err = "Unauthorized"
                /\ AccountsUnchanged
                /\ last'.mem = w]_vars

\* An operator that is not the owner is refused a withdrawal that the owner could make.
C1_Witness ==
    /\ last.op = "withdraw"
    /\ last.caller = last.pre.operator
    /\ last.caller # last.pre.owner
    /\ last.err = "Unauthorized"
    /\ last.amount > 0
    /\ last.amount <= last.pre_vault - MIN_RENT_RESERVE
    /\ ~is_locked(last.pre, now)

\* C2: withdraw and withdraw_tokens called by the owner fail with WalletLocked
\* exactly when lock_until > 0 and now < lock_until (at now = lock_until the
\* wallet is unlocked), and neither succeeds for any caller while the wallet is
\* locked.
C2_LockGatesWithdrawals ==
    [][Executes({"withdraw", "withdraw_tokens"}) =>
          LET w == wallets[last'.key]
              locked == w.lock_until > 0 /\ now < w.lock_until
          IN  /\ last'.caller = w.owner => (last'.err = "WalletLocked" <=> locked)
              /\ locked => last'.err # "Ok" /\ AccountsUnchanged]_vars

\* The owner withdraws lamports at the very second a positive lock expires.
C2_Witness ==
    /\ last.op = "withdraw"
    /\ last.err = "Ok"
    /\ last.amount > 0
    /\ last.pre.lock_until > 0
    /\ last.pre.lock_until = now
    /\ vaults[last.key] = last.pre_vault - last.amount

\* C3 as the spec states it: after every successful withdraw the vault holds at
\* least MIN_RENT_RESERVE.
C3_ReserveAfterEveryWithdraw ==
    (last.op = "withdraw" /\ last.err = "Ok") => vaults[last.key] >= MIN_RENT_RESERVE

\* C3, amended: a successful withdraw takes exactly amount out of the vault, and
\* leaves at least MIN_RENT_RESERVE in it whenever amount > 0; a withdrawal of 0
\* succeeds on any balance, also on one below the reserve, and leaves it as it was.
C3_ReserveAfterWithdraw ==
    [][(Executes({"withdraw"}) /\ last'.err = "Ok") =>
          LET k == last'.key IN
          /\ vaults'[k] = vaults[k] - last'.amount
          /\ last'.amount > 0 => vaults'[k] >= MIN_RENT_RESERVE]_vars

\* A withdrawal that takes the vault down to the reserve exactly.
C3_Witness ==
    /\ last.op = "withdraw"
    /\ last.err = "Ok"
    /\ last.amount > 0
    /\ last.pre_vault > MIN_RENT_RESERVE
    /\ vaults[last.key] = MIN_RENT_RESERVE

\* C4: execute_buy, execute_sell, execute_swap and claim_fees succeed only when
\* the caller is the owner or the current operator; any other caller gets
\* UnauthorizedOperator and nothing changes.  A successful set_operator(new)
\* leaves the previous operator, if it is neither the owner nor new, without
\* authorization, and the owner with it.
C4_OperatorGate ==
    [][/\ Executes(OperatorOps) =>
            LET w == wallets[last'.key] IN
            /\ last'.err = "Ok" => (last'.caller = w.owner \/ last'.caller = w.operator)
            /\ (last'.caller # w.owner /\ last'.caller # w.operator) =>
                  /\ last'.err = "UnauthorizedOperator"
                  /\ AccountsUnchanged
                  /\ last'.mem = w
       /\ (Executes({"set_operator"}) /\ last'.err = "Ok") =>
            LET w == wallets[last'.key]
                after == wallets'[last'.key]
            IN  /\ after.owner = w.owner
                /\ after.operator = last'.target
                /\ (w.operator # w.owner /\ w.operator # last'.target) =>
                      (w.operator # after.owner /\ w.operator # after.operator)]_vars

\* The operator named at initialize is refused a buy after the owner has
\* replaced it.
C4_Witness ==
    /\ last.op = "execute_buy"
    /\ last.caller = "bob"
    /\ last.pre.operator = "carol"
    /\ last.pre.owner = "alice"
    /\ last.err = "UnauthorizedOperator"
    /\ ~last.pre.paused
    /\ last.amount > 0
    /\ wallets[last.key] = last.pre

\* C5: while the wallet is paused no execute_buy, execute_sell, execute_swap
\* or claim_fees succeeds, and an authorized caller gets TradingPaused; no step
\* taken from a paused wallet changes total_volume, total_trades,
\* total_fees_claimed or last_trade (so they keep their values from a pause to
\* the next resume).
C5_PauseStopsTrading ==
    [][/\ (Executes(OperatorOps) /\ wallets[last'.key].paused) =>
            LET w == wallets[last'.key] IN
            /\ last'.err # "Ok"
            /\ AccountsUnchanged
            /\ (last'.caller = w.owner \/ last'.caller = w.operator) =>
                  last'.err = "TradingPaused"
       /\ \A k \in DOMAIN wallets :
            wallets[k].paused =>
              /\ wallets'[k].total_volume = wallets[k].total_volume
              /\ wallets'[k].total_trades = wallets[k].total_trades
              /\ wallets'[k].total_fees_claimed = wallets[k].total_fees_claimed
              /\ wallets'[k].last_trade = wallets[k].last_trade]_vars

\* The operator of a paused wallet that has traded, holds tokens and is past
\* its cooldown is refused a sale.
C5_Witness ==
    /\ last.op = "execute_sell"
    /\ last.caller = last.pre.operator
    /\ last.pre.paused
    /\ last.err = "TradingPaused"
    /\ last.pre.total_trades > 0
    /\ last.pre_tokens > 0
    /\ last.amount = last.pre_tokens
    /\ now >= last.pre.last_trade + last.pre.config.min_delay_secs
    /\ wallets[last.key] = last.pre

\* Two outcomes of one instruction, run on wallets that differ only in paused,
\* agree: same result, same vault, same external calls, same wallet record
\* except for paused, which each leaves as it found it.
SameButPaused(w, a, b) ==
    /\ a.err = b.err
    /\ a.vault = b.vault
    /\ a.tokens = b.tokens
    /\ a.cpi = b.cpi
    /\ a.wallet.paused = w.paused
    /\ b.wallet.paused = ~w.paused
    /\ [a.wallet EXCEPT !.paused = FALSE] = [b.wallet EXCEPT !.paused = FALSE]

\* C6: paused has no effect on deposit, withdraw, withdraw_tokens,
\* update_strategy, set_operator, set_token_mint, create_token and extend_lock:
\* on every reachable wallet and on the same wallet with paused flipped, each
\* of them returns the same result and makes the same changes.
C6_PauseIndependent ==
    last = Idle =>
      \A k \in DOMAIN wallets :
        LET w == wallets[k]
            f == [w EXCEPT !.paused = ~w.paused]
            v == vaults[k]
            t == tokens[k]
        IN  /\ \A funds \in MainInputs.deposits, amount \in MainInputs.deposits :
                 SameButPaused(w, deposit(w, v, t, funds, amount),
                                  deposit(f, v, t, funds, amount))
            /\ \A owner \in Signers :
                 /\ \A destination \in Signers, amount \in WithdrawAmounts(k) :
                      SameButPaused(w, withdraw(w, v, t, owner, destination, amount, now),
                                       withdraw(f, v, t, owner, destination, amount, now))
                 /\ \A mint \in Mints :
                      /\ (\A token_ok \in BOOLEAN :
                           SameButPaused(w, withdraw_tokens(w, v, t, owner, mint, now, token_ok),
                                            withdraw_tokens(f, v, t, owner, mint, now, token_ok)))
                      /\ SameButPaused(w, set_token_mint(w, v, t, owner, mint),
                                          set_token_mint(f, v, t, owner, mint))
                 /\ \A sc \in MainInputs.configs :
                      SameButPaused(w, update_strategy(w, v, t, owner, sc[1], sc[2]),
                                       update_strategy(f, v, t, owner, sc[1], sc[2]))
                 /\ \A new_operator \in MainInputs.operators :
                      SameButPaused(w, set_operator(w, v, t, owner, new_operator),
                                       set_operator(f, v, t, owner, new_operator))
                 /\ \A venue_ok \in BOOLEAN :
                      SameButPaused(w, create_token(w, v, t, owner, TokenName, TokenSymbol,
                                                    TokenUri, venue_ok),
                                       create_token(f, v, t, owner, TokenName, TokenSymbol,
                                                    TokenUri, venue_ok))
                 /\ \A additional \in MainInputs.additional :
                      SameButPaused(w, extend_lock(w, v, t, owner, additional, now),
                                       extend_lock(f, v, t, owner, additional, now))

\* A deposit has been accepted by a paused wallet.
C6_Witness ==
    /\ last.op = "deposit"
    /\ last.err = "Ok"
    /\ last.pre.paused
    /\ wallets[last.key].paused
    /\ vaults[last.key] = last.pre_vault + last.amount
    /\ last.amount > 0

\* Two outcomes of one trade, run on wallets that differ only in
\* config.max_delay_secs, agree in everything but that field.
SameButMaxDelay(a, b) ==
    /\ a.err = b.err
    /\ a.vault = b.vault
    /\ a.tokens = b.tokens
    /\ a.cpi = b.cpi
    /\ [a.wallet EXCEPT !.config.max_delay_secs = 0] =
       [b.wallet EXCEPT !.config.max_delay_secs = 0]

\* The trades of an idle wallet do not depend on max_delay_secs.
MaxDelayNotConsulted ==
    last = Idle =>
      \A k \in DOMAIN wallets :
        \A m \in {0, wallets[k].config.max_delay_secs + 1} :
          LET w == wallets[k]
              f == [w EXCEPT !.config.max_delay_secs = m]
              v == vaults[k]
              t == tokens[k]
          IN  \A caller \in Signers, target \in TradeInputs.programs,
                 expected \in TradeInputs.expected, venue_ok \in BOOLEAN, overflow_checks \in BOOLEAN :
                /\ \A amount \in BuyAmounts(k, TradeInputs) :
                     /\ SameButMaxDelay(
                          execute_buy(w, v, t, caller, target, amount, expected, now, venue_ok, overflow_checks),
                          execute_buy(f, v, t, caller, target, amount, expected, now, venue_ok, overflow_checks))
                     /\ SameButMaxDelay(
                          execute_swap(w, v, t, caller, target, amount, expected, TRUE, now,
                                       venue_ok, overflow_checks),
                          execute_swap(f, v, t, caller, target, amount, expected, TRUE, now,
                                       venue_ok, overflow_checks))
                /\ \A amount \in {t, t + 1} :
                     /\ SameButMaxDelay(
                          execute_sell(w, v, t, caller, target, amount, expected, now, venue_ok, overflow_checks),
                          execute_sell(f, v, t, caller, target, amount, expected, now, venue_ok, overflow_checks))
                     /\ SameButMaxDelay(
                          execute_swap(w, v, t, caller, target, amount, expected, FALSE, now,
                                       venue_ok, overflow_checks),
                          execute_swap(f, v, t, caller, target, amount, expected, FALSE, now,
                                       venue_ok, overflow_checks))

\* C7: a trade by an authorized caller on an unpaused wallet is rejected with
\* TradeTooSoon exactly when last_trade # 0 and now < last_trade +
\* min_delay_secs (at now = last_trade + min_delay_secs it passes; a wallet that
\* never traded passes at once); a successful trade stamps last_trade = now, so
\* consecutive successful trades are at least min_delay_secs apart; and
\* max_delay_secs is consulted by no guard.
C7_Cooldown ==
    /\ []MaxDelayNotConsulted
    /\ [][Executes(TradeOps) =>
            LET w == wallets[last'.key]
                soon == w.last_trade # 0 /\ now < w.last_trade + w.config.min_delay_secs
            IN  /\ ((last'.caller = w.owner \/ last'.caller = w.operator) /\ ~w.paused) =>
                      (last'.err = "TradeTooSoon" <=> soon)
                /\ last'.err = "Ok" =>
                      /\ ~soon
                      /\ wallets'[last'.key].last_trade = now]_vars

\* The second trade of a wallet succeeds at the very second its cooldown ends.
C7_Witness ==
    /\ last.op \in TradeOps
    /\ last.err = "Ok"
    /\ last.pre.last_trade # 0
    /\ last.pre.config.min_delay_secs > 0
    /\ now = last.pre.last_trade + last.pre.config.min_delay_secs
    /\ wallets[last.key].last_trade = now
    /\ wallets[last.key].total_trades = 2

\* C8: with available = max(0, vault - MIN_RENT_RESERVE), every successful
\* execute_buy and execute_swap(is_buy) has amount <= floor(available *
\* trade_size_pct / 100), and such a call that passes the guards before the cap
\* with a larger amount fails with TradeExceedsMax; execute_sell and
\* execute_swap(not is_buy) never fail on a cap or balance check.
C8_TradeCap ==
    [][/\ (Executes({"execute_buy", "execute_swap"}) /\ last'.is_buy) =>
            LET w == wallets[last'.key]
                v == vaults[last'.key]
                available == IF v > MIN_RENT_RESERVE THEN v - MIN_RENT_RESERVE ELSE 0
                cap == (available * w.config.trade_size_pct) \div 100
                reaches_cap ==
                    /\ last'.caller = w.owner \/ last'.caller = w.operator
                    /\ ~w.paused
                    /\ w.last_trade = 0 \/ now >= w.last_trade + w.config.min_delay_secs
                    /\ last'.op = "execute_swap" => last'.target = PUMPSWAP_PROGRAM
            IN  /\ last'.err = "Ok" => last'.amount <= cap
                /\ (reaches_cap /\ last'.amount > cap) => last'.err = "TradeExceedsMax"
       /\ (Executes({"execute_sell", "execute_swap"}) /\ ~last'.is_buy) =>
            last'.err \notin {"TradeExceedsMax", "InsufficientBalance"}]_vars

\* A buy of exactly the cap, a quarter of what the vault holds above the
\* reserve, succeeds.
C8_Witness ==
    /\ last.op = "execute_buy"
    /\ last.err = "Ok"
    /\ last.amount > 0
    /\ last.pre.config.trade_size_pct = 25
    /\ last.amount = ((last.pre_vault - MIN_RENT_RESERVE) * 25) \div 100
    /\ vaults[last.key] = last.pre_vault - last.amount

\* C9: over any sequence of instructions lock_until of a wallet never
\* decreases, and the only instruction that changes it is a successful
\* extend_lock on that wallet.
C9_LockMonotonic ==
    [][\A k \in DOMAIN wallets :
          /\ wallets'[k].lock_until >= wallets[k].lock_until
          /\ wallets'[k].lock_until # wallets[k].lock_until =>
                /\ last'.op = "extend_lock"
                /\ last'.err = "Ok"
                /\ last'.key = k]_vars

\* A running lock has been pushed further out by extend_lock.
C9_Witness ==
    /\ last.op = "extend_lock"
    /\ last.err = "Ok"
    /\ last.pre.lock_until > now
    /\ wallets[last.key].lock_until > last.pre.lock_until

\* C10: extend_lock by the owner with 0 < additional <= 365 days sets
\* lock_until to max(lock_until, now) + additional when that is at most now +
\* 5 years and otherwise fails with LockTooLong, lock_until unchanged; with
\* additional <= 0 or additional > 365 days it fails with InvalidLockDuration.
C10_ExtendLock ==
    [][(Executes({"extend_lock"}) /\ last'.caller = wallets[last'.key].owner) =>
          LET w == wallets[last'.key]
              after == wallets'[last'.key]
              base == IF w.lock_until > now THEN w.lock_until ELSE now
              target == base + last'.amount
          IN  IF last'.amount <= 0 \/ last'.amount > 365 * 24 * 60 * 60
              THEN last'.err = "InvalidLockDuration" /\ AccountsUnchanged
              ELSE IF target <= now + 5 * 365 * 24 * 60 * 60
              THEN /\ last'.err = "Ok"
                   /\ after = [w EXCEPT !.lock_until = target]
              ELSE last'.err = "LockTooLong" /\ AccountsUnchanged]_vars

\* An extension that lands exactly on now + 5 years is accepted.
C10_Witness ==
    /\ last.op = "extend_lock"
    /\ last.err = "Ok"
    /\ last.pre.lock_until > now
    /\ wallets[last.key].lock_until = last.pre.lock_until + last.amount
    /\ wallets[last.key].lock_until = now + 5 * 365 * 24 * 60 * 60

\* Some wallet is locked now.
SomeWalletLocked ==
    \E k \in DOMAIN wallets : wallets[k].lock_until > 0 /\ now < wallets[k].lock_until

\* An extend_lock has just succeeded.
LockExtended == last.op = "extend_lock" /\ last.err = "Ok"

\* In an unlocked wallet the owner can withdraw to itself every amount that
\* leaves the reserve in the vault.
OwnerCanWithdraw ==
    last = Idle =>
      \A k \in DOMAIN wallets :
        LET w == wallets[k]
            v == vaults[k]
        IN  (~(w.lock_until > 0 /\ now < w.lock_until) /\ v >= MIN_RENT_RESERVE) =>
              \A amount \in {0, 1, (v - MIN_RENT_RESERVE) \div 2, v - MIN_RENT_RESERVE} :
                amount <= v - MIN_RENT_RESERVE =>
                  LET out == withdraw(w, v, tokens[k], w.owner, w.owner, amount, now)
                  IN  /\ out.err = "Ok"
                      /\ out.vault = v - amount
                      /\ out.wallet = w

\* C11: owner custody is eventually recoverable.  If from some point on no
\* extend_lock succeeds, then, as time keeps advancing, from some point on no
\* wallet is locked; and in every unlocked state a withdraw by the owner to the
\* owner of any amount <= vault - MIN_RENT_RESERVE succeeds, whatever paused,
\* operator, strategy and the trade history are.
C11_CustodyRecoverable ==
    /\ []OwnerCanWithdraw
    /\ (<>[](~LockExtended)) => <>[](~SomeWalletLocked)

\* The owner of a paused wallet that has traded, has a new operator and a new
\* strategy takes out all but the reserve once an extended lock has run out.
C11_Witness ==
    /\ last.op = "withdraw"
    /\ last.err = "Ok"
    /\ last.amount > 0
    /\ last.amount = last.pre_vault - MIN_RENT_RESERVE
    /\ last.pre.paused
    /\ last.pre.operator = "carol"
    /\ last.pre.strategy = "GridTrading"
    /\ last.pre.total_trades > 0
    /\ last.pre.lock_until > StartTime + 2
    /\ now >= last.pre.lock_until

\* The step executes initialize for a key that has no wallet yet.
Initializes == last = Idle /\ last'.op = "initialize" /\ last'.key \notin DOMAIN wallets

\* C12: the operator of an initialized wallet is never the null key:
\* initialize and set_operator reject a null operator with InvalidOperator
\* (initialize after its lock-duration guard), and no other instruction writes
\* operator.
C12_OperatorNotNull ==
    /\ [](\A k \in DOMAIN wallets : wallets[k].operator # Pubkey_default)
    /\ [][/\ (Initializes /\ last'.target = Pubkey_default) =>
                /\ last'.err # "Ok"
                /\ wallets' = wallets
                /\ (last'.amount >= 0 /\ last'.amount <= 365 * 24 * 60 * 60) =>
                      last'.err = "InvalidOperator"
          /\ (Executes({"set_operator"}) /\ last'.target = Pubkey_default
                /\ last'.caller = wallets[last'.key].owner) =>
                /\ last'.err = "InvalidOperator"
                /\ AccountsUnchanged
          /\ \A k \in DOMAIN wallets :
                wallets'[k].operator # wallets[k].operator =>
                  /\ last'.op = "set_operator"
                  /\ last'.err = "Ok"
                  /\ last'.key = k]_vars

\* The owner's attempt to clear an operator it had set before is refused.
C12_Witness ==
    /\ last.op = "set_operator"
    /\ last.caller = last.pre.owner
    /\ last.target = Pubkey_default
    /\ last.err = "InvalidOperator"
    /\ last.pre.operator = "carol"
    /\ wallets[last.key].operator = "carol"

\* C13: the configuration of an initialized wallet always has 1 <=
\* trade_size_pct <= 50, 10 <= slippage_bps <= 5000 and min_delay_secs <=
\* max_delay_secs; after initialize only a successful update_strategy writes
\* config, and a configuration outside the limits is never written.
C13_ConfigValid ==
    /\ [](\A k \in DOMAIN wallets :
            LET c == wallets[k].config IN
            /\ 1 <= c.trade_size_pct /\ c.trade_size_pct <= 50
            /\ 10 <= c.slippage_bps /\ c.slippage_bps <= 5000
            /\ c.min_delay_secs <= c.max_delay_secs)
    /\ [][\A k \in DOMAIN wallets :
            wallets'[k].config # wallets[k].config =>
              /\ last'.op = "update_strategy"
              /\ last'.err = "Ok"
              /\ last'.key = k]_vars

\* A wallet holding the largest admissible trade size and slippage, set by
\* update_strategy, has refused a configuration that is outside the limits.
C13_Witness ==
    /\ last.op = "update_strategy"
    /\ last.caller = last.pre.owner
    /\ last.err = "InvalidSlippage"
    /\ wallets[last.key].strategy = "TrendFollower"
    /\ wallets[last.key].config.trade_size_pct = 50
    /\ wallets[last.key].config.slippage_bps = 5000
    /\ wallets[last.key].total_trades > 0

\* C14: token_mint is settable once.  Once it is non-null no step changes it:
\* the owner's set_token_mint then fails with TokenMintAlreadySet and the
\* owner's create_token with AlreadyInitialized, so token_mint makes at most
\* one transition, from null to a non-null value.
C14_MintSetOnce ==
    [][\A k \in DOMAIN wallets :
         wallets[k].token_mint # Pubkey_default =>
           /\ wallets'[k].token_mint = wallets[k].token_mint
           /\ (Executes({"set_token_mint"}) /\ last'.key = k
               /\ last'.caller = wallets[k].owner)
                => last'.err = "TokenMintAlreadySet"
           /\ (Executes({"create_token"}) /\ last'.key = k
               /\ last'.caller = wallets[k].owner)
                => last'.err = "AlreadyInitialized"]_vars

\* The owner offers a second, different mint to a wallet whose mint is set
\* and is refused.
C14_Witness ==
    /\ last.op = "set_token_mint"
    /\ last.caller = last.pre.owner
    /\ last.err = "TokenMintAlreadySet"
    /\ last.target = "MintB"
    /\ wallets[last.key].token_mint = "MintA"

\* C15: token_mint is null from initialize until create_token or
\* set_token_mint runs, and it is non-null after a successful create_token
\* and after a successful set_token_mint.
C15_MintSetByCreateOrSet ==
    [][/\ (Initializes /\ last'.err = "Ok")
            => wallets'[last'.key].token_mint = Pubkey_default
       /\ \A k \in DOMAIN wallets :
            (wallets[k].token_mint = Pubkey_default
             /\ wallets'[k].token_mint # Pubkey_default)
              => /\ last'.op \in {"create_token", "set_token_mint"}
                 /\ last'.err = "Ok"
                 /\ last'.key = k
       /\ (Executes({"create_token", "set_token_mint"}) /\ last'.err = "Ok")
            => wallets'[last'.key].token_mint # Pubkey_default]_vars

\* create_token has succeeded and the wallet's token_mint is still null.
C15_Witness ==
    /\ last.op = "create_token"
    /\ last.err = "Ok"
    /\ wallets[last.key].is_creator
    /\ wallets[last.key].token_mint = Pubkey_default

\* C16: a wallet creates a token at most once: create_token on a wallet that
\* has already created a token (is_creator, which only a successful
\* create_token sets) fails, so at most one create_token succeeds.
C16_CreateTokenOnce ==
    [][(Executes({"create_token"}) /\ wallets[last'.key].is_creator)
         => last'.err # "Ok"]_vars

\* A second create_token has succeeded on a wallet that had created a token.
C16_Witness ==
    /\ last.op = "create_token"
    /\ last.err = "Ok"
    /\ last.pre.is_creator
    /\ Len(last.cpi) = 1

\* C17: total_volume, total_trades and total_fees_claimed never decrease,
\* and an increment that would pass the 64-bit maximum leaves the counter at
\* the maximum: the trade or claim still succeeds, and does not wrap.
C17_CountersSaturate ==
    [][\A k \in DOMAIN wallets :
         LET w == wallets[k]
             v == wallets'[k]
         IN  /\ v.total_volume >= w.total_volume
             /\ v.total_trades >= w.total_trades
             /\ v.total_fees_claimed >= w.total_fees_claimed
             /\ (Executes(OperatorOps) /\ last'.key = k)
                  => last'.err # "MathOverflow"
             /\ (Executes(TradeOps) /\ last'.key = k /\ last'.err = "Ok")
                  => /\ v.total_trades = IF w.total_trades > U64_MAX - 1
                                         THEN U64_MAX ELSE w.total_trades + 1
                     /\ last'.op # "execute_sell"
                          => v.total_volume = IF w.total_volume > U64_MAX - last'.amount
                                              THEN U64_MAX
                                              ELSE w.total_volume + last'.amount
                     /\ last'.op = "execute_sell"
                          => \E e \in CounterInputs.expected :
                               v.total_volume = IF w.total_volume > U64_MAX - e
                                                THEN U64_MAX ELSE w.total_volume + e
             /\ (Executes({"claim_fees"}) /\ last'.key = k /\ last'.err = "Ok")
                  => v.total_fees_claimed = IF w.total_fees_claimed > U64_MAX - last'.amount
                                            THEN U64_MAX
                                            ELSE w.total_fees_claimed + last'.amount]_vars

\* A buy of two lamports on a wallet one lamport of volume and one trade short
\* of the maximum has succeeded and left both counters at the maximum.
C17_Witness ==
    /\ last.op = "execute_buy"
    /\ last.err = "Ok"
    /\ last.amount = 2
    /\ last.pre.total_volume = U64_MAX - 1
    /\ last.pre.total_trades = U64_MAX
    /\ wallets[last.key].total_volume = U64_MAX
    /\ wallets[last.key].total_trades = U64_MAX

\* The record initialize is specified to create.
InitializedWallet(owner_key, nonce, lock_seconds, strategy, config, operator, unix_timestamp) ==
    [version |-> 2, owner |-> owner_key, operator |-> operator,
     token_mint |-> Pubkey_default, nonce |-> nonce, strategy |-> strategy,
     config |-> config,
     lock_until |-> IF lock_seconds > 0 THEN unix_timestamp + lock_seconds ELSE 0,
     paused |-> FALSE, is_creator |-> FALSE, total_volume |-> 0, total_trades |-> 0,
     total_fees_claimed |-> 0, last_trade |-> 0, created_at |-> unix_timestamp]

\* The error the configuration limits give for config, "Ok" when it is valid.
ConfigError(config) ==
    IF config.trade_size_pct < 1 \/ config.trade_size_pct > 50 THEN "InvalidTradeSize"
    ELSE IF config.slippage_bps < 10 \/ config.slippage_bps > 5000 THEN "InvalidSlippage"
    ELSE IF config.min_delay_secs > config.max_delay_secs THEN "InvalidDelayConfig"
    ELSE "Ok"

\* The result initialize is specified to return: the first failing check in
\* the order lock duration, operator, configuration.
InitializeError(lock_seconds, config, operator) ==
    IF lock_seconds < 0 \/ lock_seconds > 365 * 24 * 60 * 60 THEN "InvalidLockDuration"
    ELSE IF operator = Pubkey_default THEN "InvalidOperator"
    ELSE ConfigError(config)

\* C18: initialize with 0 <= lock_seconds <= 365 days, a non-null operator and
\* a valid config creates the wallet with owner = caller, the given operator,
\* nonce, strategy and config, token_mint null, paused and is_creator false,
\* the counters and last_trade 0, created_at = now and lock_until = now +
\* lock_seconds if lock_seconds > 0 else 0.  A lock_seconds outside the range
\* fails with InvalidLockDuration, a null operator with InvalidOperator, an
\* invalid config with its error, and a failure creates no wallet.
C18_Initialize ==
    /\ [](\A k \in InitInputs.keys, lock_seconds \in InitInputs.lock_seconds,
             sc \in InitInputs.init_configs, operator \in InitInputs.init_operators :
            LET r == initialize(k[1], k[2], lock_seconds, sc[1], sc[2], operator, now)
            IN  /\ r.err = InitializeError(lock_seconds, sc[2], operator)
                /\ r.err = "Ok"
                     => r.val = InitializedWallet(k[1], k[2], lock_seconds, sc[1], sc[2],
                                                  operator, now))
    /\ [][Initializes =>
            /\ \E sc \in InitInputs.init_configs :
                 /\ last'.err = InitializeError(last'.amount, sc[2], last'.target)
                 /\ last'.err = "Ok"
                      => wallets' = (last'.key :>
                                       InitializedWallet(last'.key[1], last'.key[2],
                                                         last'.amount, sc[1], sc[2],
                                                         last'.target, now)) @@ wallets
            /\ last'.caller = last'.key[1]
            /\ last'.err # "Ok" => wallets' = wallets /\ vaults' = vaults]_vars

\* bob's wallet with nonce 7 was created at the second instant with the
\* longest lock and the largest admissible trade size and slippage.
C18_Witness ==
    /\ last.op = "initialize"
    /\ last.err = "Ok"
    /\ last.key = <<"bob", 7>>
    /\ last.amount = MAX_LOCK_SECONDS
    /\ wallets[last.key].owner = "bob"
    /\ wallets[last.key].nonce = 7
    /\ wallets[last.key].created_at = StartTime + 1
    /\ wallets[last.key].lock_until = StartTime + 1 + MAX_LOCK_SECONDS
    /\ wallets[last.key].config.trade_size_pct = 50

\* C19: initialize for an (owner, nonce) pair that already has a wallet fails
\* and leaves every field of that wallet, and every other account, as it was;
\* initialize for the same owner with another nonce, or for another owner,
\* succeeds and leaves the existing wallets as they were.
C19_NoReinitialize ==
    [][(last = Idle /\ last'.op = "initialize") =>
         /\ last'.key \in DOMAIN wallets
              => /\ last'.err # "Ok"
                 /\ wallets' = wallets
                 /\ vaults' = vaults
                 /\ tokens' = tokens
         /\ last'.key \notin DOMAIN wallets
              => /\ last'.err = "Ok"
                 /\ DOMAIN wallets' = DOMAIN wallets \cup {last'.key}
                 /\ \A k \in DOMAIN wallets : wallets'[k] = wallets[k]]_vars

\* A second initialize for alice's wallet 0 has failed after its operator
\* and counters had changed and the clock had advanced, while alice's
\* wallet 1 and bob's wallet 0 have been created beside it.
C19_Witness ==
    /\ last.op = "initialize"
    /\ last.key = <<"alice", 0>>
    /\ last.err # "Ok"
    /\ DOMAIN wallets = {<<"alice", 0>>, <<"alice", 1>>, <<"bob", 0>>}
    /\ wallets[last.key].operator = "carol"
    /\ wallets[last.key].total_trades = 1
    /\ wallets[last.key].created_at < now
    /\ wallets[last.key].lock_until = wallets[last.key].created_at + 1
    /\ wallets[<<"alice", 1>>].created_at = now
    /\ wallets[<<"alice", 1>>].operator = "dave"

\* C20: execute_buy and execute_sell issue an external call only when the
\* target is the bonding-curve venue, execute_swap only when it is the AMM
\* venue.  With any other target the trade fails, issues no call and changes
\* no account; the error is InvalidProgram when the checks that precede the
\* target check pass.  Every call issued is addressed to the fixed venue.
C20_FixedVenue ==
    [][Executes(TradeOps) =>
         LET w == wallets[last'.key]
             venue == IF last'.op = "execute_swap" THEN PUMPSWAP_PROGRAM
                      ELSE PUMP_FUN_PROGRAM
             available == IF vaults[last'.key] >= 10000000
                          THEN vaults[last'.key] - 10000000 ELSE 0
             may_trade == /\ last'.caller \in {w.owner, w.operator}
                          /\ ~w.paused
                          /\ now >= w.last_trade + w.config.min_delay_secs
             within_cap == last'.amount * 100 <= available * w.config.trade_size_pct
         IN  /\ last'.target # venue
                  => /\ last'.err # "Ok"
                     /\ last'.cpi = << >>
                     /\ AccountsUnchanged
                     /\ (may_trade /\ (last'.op = "execute_buy" => within_cap))
                          => last'.err = "InvalidProgram"
             /\ \A i \in 1 .. Len(last'.cpi) : last'.cpi[i].program_id = venue
             /\ last'.err = "Ok" => Len(last'.cpi) = 1]_vars

\* The operator's swap aimed at the bonding-curve venue, with an amount above
\* the trade cap, is refused for its target and no call is issued.
C20_Witness ==
    /\ last.op = "execute_swap"
    /\ last.is_buy
    /\ last.caller = last.pre.operator
    /\ last.target = PUMP_FUN_PROGRAM
    /\ last.err = "InvalidProgram"
    /\ last.cpi = << >>
    /\ last.pre_vault > MIN_RENT_RESERVE
    /\ last.amount * 100 > (last.pre_vault - MIN_RENT_RESERVE) * last.pre.config.trade_size_pct
    /\ wallets[last.key] = last.pre

\* C21: claim_fees by an authorized caller on an unpaused wallet succeeds
\* only if is_creator is true and fails with Unauthorized otherwise; on
\* success total_fees_claimed grows by max(0, vault after - vault before) and
\* no other field of the wallet changes.
C21_ClaimFees ==
    [][Executes({"claim_fees"}) =>
         LET k == last'.key
             w == wallets[k]
             gained == IF vaults'[k] > vaults[k] THEN vaults'[k] - vaults[k] ELSE 0
         IN  /\ (last'.caller \in {w.owner, w.operator} /\ ~w.paused /\ ~w.is_creator)
                  => /\ last'.err = "Unauthorized"
                     /\ AccountsUnchanged
             /\ last'.err = "Ok"
                  => /\ w.is_creator
                     /\ wallets'[k] = [w EXCEPT !.total_fees_claimed = @ + gained]]_vars

\* A claim whose venue call took lamports from the vault has succeeded and
\* left the fees claimed earlier, and the trade counters, as they were.
C21_Witness ==
    /\ last.op = "claim_fees"
    /\ last.err = "Ok"
    /\ last.caller = last.pre.operator
    /\ vaults[last.key] < last.pre_vault
    /\ last.pre.total_fees_claimed = FeeUnit
    /\ wallets[last.key].total_fees_claimed = FeeUnit
    /\ wallets[last.key].total_trades = 1

\* The step executes one of the fourteen instructions and it returns an error.
Fails == last = Idle /\ last'.op # "idle" /\ last'.err # "Ok"

\* C22 as stated: whenever an instruction returns an error the accounts are as
\* they were before the call, and the handler has written nothing: the record
\* it holds on return is the record it was given.
C22_FailFast ==
    [][Fails => /\ AccountsUnchanged
                /\ last'.mem = last'.pre]_vars

\* C22 amended: whenever an instruction returns an error the accounts are
\* as they were before the call, and the handler has written nothing unless
\* it is initialize failing with MathOverflow in its lock computation.
C22_NoPartialEffect ==
    [][Fails => /\ AccountsUnchanged
                /\ DOMAIN wallets' = DOMAIN wallets
                /\ ~(last'.op = "initialize" /\ last'.err = "MathOverflow")
                     => last'.mem = last'.pre]_vars

\* initialize has failed in its lock computation after it had written the
\* owner, the operator and the configuration to the new record; no account
\* has been created.
C22_Witness ==
    /\ last.op = "initialize"
    /\ last.err = "MathOverflow"
    /\ last.mem.owner = "alice"
    /\ last.mem.operator = "bob"
    /\ last.mem.config.trade_size_pct = 25
    /\ last.mem.lock_until = 0
    /\ last.key \notin DOMAIN wallets

\* C23: every addition, subtraction and multiplication reachable from an
\* instruction is overflow-checked or saturating.  For the sum last_trade +
\* min_delay_secs of the cooldown: when it passes the largest timestamp, a
\* trade that reaches the cooldown check either fails with MathOverflow or
\* treats the sum as saturated, so that it is refused with TradeTooSoon
\* before the largest timestamp.
C23_CheckedArithmetic ==
    [][Executes(TradeOps) =>
         LET w == wallets[last'.key]
         IN  (/\ last'.caller \in {w.owner, w.operator}
              /\ ~w.paused
              /\ w.last_trade # 0
              /\ w.last_trade + w.config.min_delay_secs > I64_MAX)
               => \/ last'.err = "MathOverflow"
                  \/ last'.err = "TradeTooSoon" /\ now < I64_MAX
                  \/ now = I64_MAX]_vars

\* A sell has gone through one second after the previous trade on a wallet
\* whose cooldown is longer, because the sum of the cooldown wrapped.
C23_Witness ==
    /\ last.op = "execute_sell"
    /\ last.err = "Ok"
    /\ last.pre.last_trade # 0
    /\ last.pre.last_trade + last.pre.config.min_delay_secs > I64_MAX
    /\ now - last.pre.last_trade < last.pre.config.min_delay_secs
    /\ wallets[last.key].total_trades = 2

\* C24: validate_config checks trade_size_pct in [1, 50] (InvalidTradeSize),
\* then slippage_bps in [10, 5000] (InvalidSlippage), then min_delay_secs <=
\* max_delay_secs (InvalidDelayConfig) and returns the error of the first
\* violated check; it rejects 0 and 51, 9 and 5001, and min > max, and
\* accepts 1, 50, 10, 5000 and min = max.
C24_ValidateConfig ==
    last.op = "validate_config" =>
      LET c == last.mem.config
          size_ok == 1 <= c.trade_size_pct /\ c.trade_size_pct <= 50
          slippage_ok == 10 <= c.slippage_bps /\ c.slippage_bps <= 5000
          delay_ok == c.min_delay_secs <= c.max_delay_secs
      IN  /\ ~size_ok => last.err = "InvalidTradeSize"
          /\ (size_ok /\ ~slippage_ok) => last.err = "InvalidSlippage"
          /\ (size_ok /\ slippage_ok /\ ~delay_ok) => last.err = "InvalidDelayConfig"
          /\ (size_ok /\ slippage_ok /\ delay_ok) => last.err = "Ok"
          /\ c.trade_size_pct \in {0, 51} => last.err # "Ok"
          /\ c.slippage_bps \in {9, 5001} => last.err # "Ok"

\* A configuration that violates all three checks has been refused with the
\* error of the first.
C24_Witness ==
    /\ last.op = "validate_config"
    /\ last.mem.config.trade_size_pct = 51
    /\ last.mem.config.slippage_bps = 5001
    /\ last.mem.config.min_delay_secs > last.mem.config.max_delay_secs
    /\ last.err = "InvalidTradeSize"

\* C25: for every balance b and percent p in [1, 50], max_trade_amount
\* returns floor(b * p / 100), which does not decrease when b or p grows; it
\* fails with MathOverflow exactly when b * p exceeds the largest u64, also
\* when the quotient would fit.
C25_MaxTradeAmount ==
    (last.op = "max_trade_amount" /\ last.mem.config.trade_size_pct \in 1..50) =>
      LET b == last.amount
          p == last.mem.config.trade_size_pct
          overflows == b > U64_MAX \div p
          r == max_trade_amount(last.mem, b)
      IN  /\ overflows <=> last.err = "MathOverflow"
          /\ ~overflows => (last.err = "Ok" /\ r.err = "Ok" /\ r.val = (b * p) \div 100)
          /\ \A b2 \in BalanceGrid, p2 \in PctGrid \cap (1..50) :
                LET r2 == max_trade_amount(WalletWithConfig(Config(p2, 0, 0, 0)), b2)
                IN  (b <= b2 /\ p <= p2 /\ r.err = "Ok" /\ r2.err = "Ok") => r.val <= r2.val

\* The cap of a balance has been refused because balance * percent leaves
\* u64 although a hundredth of it is far inside.
C25_Witness ==
    /\ last.op = "max_trade_amount"
    /\ last.mem.config.trade_size_pct = 25
    /\ last.amount = (U64_MAX \div 25) + 1
    /\ last.err = "MathOverflow"

\* C26: for every expected output e and slippage s in [10, 5000],
\* calculate_min_output returns floor(e * (10000 - s) / 10000), which is at
\* most e; with s = 0 it returns e; it fails with MathOverflow when s > 10000
\* or when e * (10000 - s) exceeds the largest u64.
C26_CalculateMinOutput ==
    last.op = "calculate_min_output" =>
      LET e == last.amount
          s == last.mem.config.slippage_bps
          overflows == s > 10000 \/ (s < 10000 /\ e > U64_MAX \div (10000 - s))
          r == calculate_min_output(last.mem, e)
      IN  /\ overflows <=> last.err = "MathOverflow"
          /\ ~overflows =>
                /\ last.err = "Ok" /\ r.err = "Ok"
                /\ r.val = (e * (10000 - s)) \div 10000
                /\ r.val <= e
                /\ s = 0 => r.val = e

\* A minimum output at an accepted slippage has been refused because the
\* product leaves u64.
C26_Witness ==
    /\ last.op = "calculate_min_output"
    /\ last.mem.config.slippage_bps = 10
    /\ last.amount = (U64_MAX \div 9990) + 1
    /\ last.err = "MathOverflow"

\* C27: deposit with amount > 0 from any caller, in any lock or pause state,
\* moves exactly amount from the caller into the vault and leaves every field
\* of the wallet record unchanged; deposit with amount = 0 fails with
\* ZeroDeposit and moves nothing.  The system transfer is the only step that
\* can fail for amount > 0: it does not when the caller holds the amount.
C27_Deposit ==
    [][Executes({"deposit"}) =>
         LET k == last'.key
             amount == last'.amount
         IN  /\ amount = 0 => (last'.err = "ZeroDeposit" /\ AccountsUnchanged)
             /\ amount > 0 =>
                  /\ last'.err \in {"Ok", "TransferFailed"}
                  /\ deposit(wallets[k], vaults[k], tokens[k], amount, amount).err = "Ok"
                  /\ last'.err = "Ok" =>
                       /\ vaults' = [vaults EXCEPT ![k] = vaults[k] + amount]
                       /\ wallets' = wallets
                       /\ tokens' = tokens
                       /\ last'.mem = wallets[k]
                       /\ last'.cpi = <<Instruction("SystemProgram", <<"transfer", amount>>)>>
                  /\ last'.err # "Ok" => AccountsUnchanged]_vars

\* A caller who is neither owner nor operator has deposited into a paused,
\* locked wallet.
C27_Witness ==
    /\ last.op = "deposit"
    /\ last.err = "Ok"
    /\ last.amount > 0
    /\ last.caller # last.pre.owner
    /\ last.caller # last.pre.operator
    /\ last.pre.paused
    /\ last.pre.lock_until > now
    /\ vaults[last.key] = last.pre_vault + last.amount

\* C28: withdraw_tokens by the owner of an unlocked wallet with the recorded
\* mint transfers the vault's whole token balance to the owner and leaves it
\* 0; when the balance is already 0 it succeeds with no transfer and no
\* change; with any other mint, and with any mint while token_mint is null,
\* it fails with TokenMintMismatch.  The transfer is the only step that can
\* fail once the three guards have passed: it does not when the token
\* program accepts it, and when it does nothing has moved.
C28_WithdrawTokens ==
    [][(/\ Executes({"withdraw_tokens"})
        /\ last'.caller = wallets[last'.key].owner
        /\ ~(wallets[last'.key].lock_until > 0 /\ now < wallets[last'.key].lock_until)) =>
         LET k == last'.key
             mint == last'.target
         IN  /\ mint = wallets[k].token_mint =>
                  /\ last'.err \in {"Ok", "TokenTransferFailed"}
                  /\ withdraw_tokens(wallets[k], vaults[k], tokens[k], last'.caller, mint,
                                     now, TRUE).err = "Ok"
                  /\ last'.err = "Ok" =>
                       /\ tokens' = [tokens EXCEPT ![k] = 0]
                       /\ wallets' = wallets /\ vaults' = vaults
                       /\ last'.mem = wallets[k]
                       /\ tokens[k] = 0 => last'.cpi = << >>
                       /\ tokens[k] > 0 =>
                            last'.cpi = <<Instruction("TokenProgram",
                                                      <<"transfer", tokens[k]>>)>>
                  /\ last'.err = "TokenTransferFailed" =>
                       (tokens[k] > 0 /\ AccountsUnchanged)
                  /\ tokens[k] = 0 => last'.err = "Ok"
             /\ mint # wallets[k].token_mint =>
                  (last'.err = "TokenMintMismatch" /\ AccountsUnchanged)
             /\ wallets[k].token_mint = Pubkey_default => last'.err = "TokenMintMismatch"]_vars

\* The owner has withdrawn a positive token balance and the vault holds no
\* token any more.
C28_Witness ==
    /\ last.op = "withdraw_tokens"
    /\ last.err = "Ok"
    /\ last.caller = last.pre.owner
    /\ last.target = last.pre.token_mint
    /\ last.pre_tokens > 0
    /\ tokens[last.key] = 0
    /\ last.cpi = <<Instruction("TokenProgram", <<"transfer", last.pre_tokens>>)>>

\* C29: owner, nonce and created_at are immutable: after initialize no
\* instruction by any caller changes any of the three, in the account or in
\* the record the handler holds when it returns.
C29_IdentityImmutable ==
    [][\A k \in DOMAIN wallets :
          /\ k \in DOMAIN wallets'
          /\ wallets'[k].owner = wallets[k].owner
          /\ wallets'[k].nonce = wallets[k].nonce
          /\ wallets'[k].created_at = wallets[k].created_at
          /\ (last = Idle /\ last'.key = k) =>
                /\ last'.mem.owner = wallets[k].owner
                /\ last'.mem.nonce = wallets[k].nonce
                /\ last'.mem.created_at = wallets[k].created_at]_vars

\* The owner has replaced the operator some time after the wallet was
\* created, and the wallet still carries its creator, nonce and creation time.
C29_Witness ==
    /\ last.op = "set_operator"
    /\ last.err = "Ok"
    /\ last.pre.operator # wallets[last.key].operator
    /\ now > wallets[last.key].created_at
    /\ wallets[last.key].owner = "alice"
    /\ wallets[last.key].nonce = 1
    /\ wallets[last.key].created_at = last.pre.created_at

\* C30: each successful trade issues exactly one external call, with payload
\* execute_buy: (bonding-curve buy opcode, min_out, amount_lamports);
\* execute_sell: (sell opcode, token_amount, min_out); execute_swap buy: (AMM
\* buy opcode, amount_in, min_out); execute_swap sell: (the bonding-curve
\* sell opcode, amount_in, min_out); min_out is
\* floor(expected * (10000 - config.slippage_bps) / 10000) for the caller's
\* expected value and the stored config.
C30_TradePayload ==
    [][(Executes(TradeOps) /\ last'.err = "Ok") =>
         LET k == last'.key
             amount == last'.amount
             slippage == wallets[k].config.slippage_bps
         IN  /\ Len(last'.cpi) = 1
             /\ \E expected \in PayloadInputs.expected :
                  LET min_out == (expected * (10000 - slippage)) \div 10000
                  IN  last'.cpi[1].data =
                        IF last'.op = "execute_buy"
                        THEN <<102, 6, 61, 18, 1, 218, 235, 234>>
                             \o to_le_bytes(min_out) \o to_le_bytes(amount)
                        ELSE IF last'.op = "execute_sell"
                        THEN <<51, 230, 133, 164, 1, 127, 131, 173>>
                             \o to_le_bytes(amount) \o to_le_bytes(min_out)
                        ELSE IF last'.is_buy
                        THEN <<248, 198, 158, 145, 225, 117, 135, 200>>
                             \o to_le_bytes(amount) \o to_le_bytes(min_out)
                        ELSE <<51, 230, 133, 164, 1, 127, 131, 173>>
                             \o to_le_bytes(amount) \o to_le_bytes(min_out)]_vars

\* A swap in the sell direction has gone out with the bonding-curve sell
\* opcode, the tokens sold and the minimum computed from an expected output of
\* ExpectedUnit + 1 at the slippage update_strategy had stored.
C30_Witness ==
    /\ last.op = "execute_swap"
    /\ ~last.is_buy
    /\ last.err = "Ok"
    /\ last.amount > 0
    /\ last.pre.config.slippage_bps = 10
    /\ last.cpi = <<Instruction(PUMPSWAP_PROGRAM,
                                <<51, 230, 133, 164, 1, 127, 131, 173>>
                                \o to_le_bytes(last.amount)
                                \o to_le_bytes(((ExpectedUnit + 1) * 9990) \div 10000))>>

\* C31: a successful trade updates only total_volume, total_trades and
\* last_trade: total_trades grows by 1 (saturating), last_trade becomes now and
\* total_volume grows (saturating) by amount_lamports for execute_buy, by
\* amount_in for execute_swap in both directions and by the caller's
\* expected_sol for execute_sell; every other field of the record is as
\* before.
C31_TradeFrame ==
    [][(Executes(TradeOps) /\ last'.err = "Ok") =>
         LET k == last'.key
             w == wallets[k]
         IN  \E expected \in TradeInputs.expected :
               LET counted == IF last'.op = "execute_sell" THEN expected ELSE last'.amount
                   volume == IF w.total_volume > U64_MAX - counted
                             THEN U64_MAX ELSE w.total_volume + counted
                   trades == IF w.total_trades > U64_MAX - 1
                             THEN U64_MAX ELSE w.total_trades + 1
               IN  /\ wallets' = [wallets EXCEPT ![k] =
                                    [w EXCEPT !.total_volume = volume,
                                              !.total_trades = trades,
                                              !.last_trade = now]]
                   /\ last'.mem = wallets'[k]]_vars

\* A sell some time after the wallet's first trade has counted the expected
\* lamports, not the tokens sold, and stamped the time of the call.
C31_Witness ==
    /\ last.op = "execute_sell"
    /\ last.err = "Ok"
    /\ last.amount > 0
    /\ last.amount # ExpectedUnit
    /\ last.pre.total_trades > 0
    /\ wallets[last.key].total_volume = last.pre.total_volume + ExpectedUnit
    /\ wallets[last.key].total_trades = last.pre.total_trades + 1
    /\ wallets[last.key].last_trade = now
    /\ now > last.pre.last_trade

\* C32: with trade_size_pct <= 50, as validate_config keeps it, the
\* InsufficientBalance guard of execute_buy and of execute_swap in the buy
\* direction never fires: an amount within the cap is within the spendable
\* balance, and an amount above the balance is refused with TradeExceedsMax
\* before the guard is reached.
C32_InsufficientBalanceUnreachable ==
    [][Executes({"execute_buy", "execute_swap"}) =>
         LET k == last'.key
             w == wallets[k]
             available == IF vaults[k] >= 10000000 THEN vaults[k] - 10000000 ELSE 0
             cap == (available * w.config.trade_size_pct) \div 100
         IN  /\ w.config.trade_size_pct <= 50
             /\ last'.err # "InsufficientBalance"
             /\ (last'.is_buy /\ last'.amount <= cap) => last'.amount <= available
             /\ (last'.is_buy /\ last'.amount > available) =>
                   last'.err \in {"UnauthorizedOperator", "TradingPaused", "TradeTooSoon",
                                  "InvalidProgram", "TradeExceedsMax"}]_vars

\* A buy of one lamport more than the vault can spend, at the largest trade
\* size, has been refused for exceeding the cap.
C32_Witness ==
    /\ last.op = "execute_buy"
    /\ last.pre.config.trade_size_pct = 50
    /\ last.pre_vault > MIN_RENT_RESERVE
    /\ last.amount = (last.pre_vault - MIN_RENT_RESERVE) + 1
    /\ last.err = "TradeExceedsMax"

\* C33: in every reachable state of an initialized wallet lock_until is at
\* most five years after now: initialize sets it at most 365 days ahead, a
\* successful extend_lock leaves it at most five years after the time of the
\* call, a refused one leaves it alone, and the clock only advances.
C33_LockBounded ==
    [][/\ \A k \in DOMAIN wallets' : wallets'[k].lock_until <= now' + 157680000
       /\ (last = Idle /\ last'.op = "initialize" /\ last'.err = "Ok") =>
             wallets'[last'.key].lock_until <= now + 31536000
       /\ (Executes({"extend_lock"}) /\ last'.err = "Ok") =>
             /\ wallets'[last'.key].lock_until <= now + 157680000
             /\ wallets'[last'.key].lock_until > wallets[last'.key].lock_until
       /\ (Executes({"extend_lock"}) /\ last'.err # "Ok") => wallets' = wallets
       /\ now' >= now]_vars

\* Extensions of 365 days have brought the lock to exactly five years after
\* now.
C33_Witness ==
    /\ last.op = "extend_lock"
    /\ last.err = "Ok"
    /\ last.amount = MAX_LOCK_SECONDS
    /\ last.pre.lock_until > now
    /\ wallets[last.key].lock_until = now + MAX_TOTAL_LOCK_SECONDS

\* Two outcomes of one instruction, run on a wallet and on the same wallet
\* with another lock_until, agree in everything but that field, which each
\* keeps, and neither is WalletLocked.
SameButLock(w, f, a, b) ==
    /\ a.err = b.err
    /\ a.err # "WalletLocked"
    /\ a.vault = b.vault
    /\ a.tokens = b.tokens
    /\ a.cpi = b.cpi
    /\ a.wallet.lock_until = w.lock_until
    /\ b.wallet.lock_until = f.lock_until
    /\ [a.wallet EXCEPT !.lock_until = 0] = [b.wallet EXCEPT !.lock_until = 0]

\* C34: the lock gates withdrawals only: execute_buy, execute_sell,
\* execute_swap, claim_fees, create_token, set_token_mint, update_strategy,
\* set_operator, pause, resume and deposit have the same outcome on a locked
\* wallet as on the same wallet unlocked, and none returns WalletLocked.
C34_LockGatesWithdrawalsOnly ==
    /\ last.op \in {"execute_buy", "execute_sell", "execute_swap", "claim_fees",
                    "create_token", "set_token_mint", "update_strategy", "set_operator",
                    "pause", "resume", "deposit"} => last.err # "WalletLocked"
    /\ last = Idle =>
        \A k \in DOMAIN wallets :
          LET w == wallets[k]
              locked == w.lock_until > 0 /\ now < w.lock_until
              f == [w EXCEPT !.lock_until = IF locked THEN 0 ELSE now + 1]
              v == vaults[k]
              t == tokens[k]
          IN  /\ \A funds \in IdentityInputs.deposits, amount \in IdentityInputs.deposits :
                   SameButLock(w, f, deposit(w, v, t, funds, amount),
                                     deposit(f, v, t, funds, amount))
              /\ \A caller \in Signers, venue_ok \in BOOLEAN, overflow_checks \in BOOLEAN :
                   /\ \A target \in Programs, expected \in IdentityInputs.expected :
                        /\ \A amount \in BuyAmounts(k, IdentityInputs) :
                             /\ SameButLock(w, f,
                                  execute_buy(w, v, t, caller, target, amount, expected,
                                              now, venue_ok, overflow_checks),
                                  execute_buy(f, v, t, caller, target, amount, expected,
                                              now, venue_ok, overflow_checks))
                             /\ SameButLock(w, f,
                                  execute_swap(w, v, t, caller, target, amount, expected,
                                               TRUE, now, venue_ok, overflow_checks),
                                  execute_swap(f, v, t, caller, target, amount, expected,
                                               TRUE, now, venue_ok, overflow_checks))
                        /\ \A amount \in {t, t + 1} :
                             /\ SameButLock(w, f,
                                  execute_sell(w, v, t, caller, target, amount, expected,
                                               now, venue_ok, overflow_checks),
                                  execute_sell(f, v, t, caller, target, amount, expected,
                                               now, venue_ok, overflow_checks))
                             /\ SameButLock(w, f,
                                  execute_swap(w, v, t, caller, target, amount, expected,
                                               FALSE, now, venue_ok, overflow_checks),
                                  execute_swap(f, v, t, caller, target, amount, expected,
                                               FALSE, now, venue_ok, overflow_checks))
                   /\ \A fee \in IdentityInputs.fees :
                        SameButLock(w, f, claim_fees(w, v, t, caller, fee, venue_ok),
                                          claim_fees(f, v, t, caller, fee, venue_ok))
                   /\ SameButLock(w, f,
                        create_token(w, v, t, caller, TokenName, TokenSymbol, TokenUri,
                                     venue_ok),
                        create_token(f, v, t, caller, TokenName, TokenSymbol, TokenUri,
                                     venue_ok))
              /\ \A owner \in Signers :
                   /\ \A mint \in Mints :
                        SameButLock(w, f, set_token_mint(w, v, t, owner, mint),
                                          set_token_mint(f, v, t, owner, mint))
                   /\ \A sc \in IdentityInputs.configs :
                        SameButLock(w, f, update_strategy(w, v, t, owner, sc[1], sc[2]),
                                          update_strategy(f, v, t, owner, sc[1], sc[2]))
                   /\ \A new_operator \in IdentityInputs.operators :
                        SameButLock(w, f, set_operator(w, v, t, owner, new_operator),
                                          set_operator(f, v, t, owner, new_operator))
                   /\ SameButLock(w, f, pause(w, v, t, owner), pause(f, v, t, owner))
                   /\ SameButLock(w, f, resume(w, v, t, owner), resume(f, v, t, owner))

\* The operator has traded on a wallet whose lock has not expired.
C34_Witness ==
    /\ last.op = "execute_buy"
    /\ last.err = "Ok"
    /\ last.caller = last.pre.operator
    /\ last.pre.lock_until > now
    /\ wallets[last.key].lock_until = last.pre.lock_until
    /\ wallets[last.key].total_trades = last.pre.total_trades + 1

\* C35: is_creator is false from initialize until the first successful
\* create_token and is never reset to false: a wallet starts with it false,
\* only a successful create_token changes it, and only to true; so a
\* claim_fees succeeds only on a wallet on which create_token has succeeded,
\* and set_token_mint leaves a wallet as fee-ineligible as it was.
C35_CreatorOnlyByCreateToken ==
    [][/\ (last = Idle /\ last'.op = "initialize" /\ last'.err = "Ok") =>
             wallets'[last'.key].is_creator = FALSE
       /\ \A k \in DOMAIN wallets :
             wallets'[k].is_creator # wallets[k].is_creator =>
                /\ last'.op = "create_token" /\ last'.key = k /\ last'.err = "Ok"
                /\ wallets[k].is_creator = FALSE
                /\ wallets'[k].is_creator = TRUE
       /\ (Executes({"create_token"}) /\ last'.err = "Ok") =>
             wallets'[last'.key].is_creator = TRUE
       /\ (Executes({"claim_fees"}) /\ last'.err = "Ok") =>
             wallets[last'.key].is_creator = TRUE
       /\ (Executes({"claim_fees"}) /\ wallets[last'.key].is_creator = FALSE) =>
             last'.err \in {"UnauthorizedOperator", "TradingPaused", "Unauthorized"}
       /\ Executes({"set_token_mint"}) =>
             last'.mem.is_creator = wallets[last'.key].is_creator]_vars

\* The operator's fee claim on a wallet whose mint was recorded by
\* set_token_mint, and on which no create_token has succeeded, has been
\* refused.
C35_Witness ==
    /\ last.op = "claim_fees"
    /\ last.err = "Unauthorized"
    /\ last.caller = last.pre.operator
    /\ ~last.pre.paused
    /\ last.pre.token_mint \in Mints
    /\ last.pre.is_creator = FALSE

====
